---- MODULE Spec2Model ----
\* Event Intelligence Platform: the deterministic risk classifier of
\* lib/classifier.ts (classifyArticles and its helpers), the POST /api/analyze
\* route that calls it, and the rate limiter, edge middleware, health check
\* and in-memory cache of the same server.
EXTENDS Integers, Sequences, FiniteSets, TLC

VARIABLES
    KEYWORDS,         \* module-level keyword dictionaries
    CATEGORY_WEIGHT,  \* module-level base weights
    SEVERITY_TIERS,   \* module-level severity tiers
    rawArticles,      \* the article list the caller holds
    assessment,       \* result of the latest classifyArticles(rawArticles)
    previous,         \* result of the call before it on the same list
    impact,           \* latest direct call of toImpactLevel: <<score, level>>
    pc,               \* POST /api/analyze: the step the request is at
    user,             \* POST /api/analyze: result of getAuthUser()
    aiSummary,        \* POST /api/analyze: the summary to persist
    response,         \* POST /api/analyze: the response returned
    invoked,          \* POST /api/analyze: collaborators called, in order
    conn,             \* POST /api/analyze: the connection held, its open transaction
    database,         \* MySQL: committed rows per table, connections of the pool
    now,              \* Date.now(), in milliseconds
    buckets,          \* authLimiter: key -> bucket
    checks,           \* authLimiter: the checks made, <<key, time, result>>
    routed,           \* middleware: the requests seen and what each got
    health,           \* GET /api/health: <<inputs, HealthStatus, HTTP status>>
    store,            \* apiCache: key -> entry
    sets,             \* apiCache: latest set per key, as the caller made it
    got,              \* apiCache: latest get, <<key, time, result>>
    tally,            \* classifyArticles step 3: articles counted per category
    tallyBreakdown,   \* classifyArticles step 3: categoryBreakdown of tally
    tallyDominant,    \* classifyArticles step 4: dominant category of tally
    currentContext,   \* lib/requestContext.ts: the module-level context
    inflight          \* the requests being handled: step, own ID, response

classifierVars == <<KEYWORDS, CATEGORY_WEIGHT, SEVERITY_TIERS,
                    rawArticles, assessment, previous, impact>>

analyzeVars == <<pc, user, aiSummary, response, invoked, conn>>

limiterVars == <<buckets, checks>>

middlewareVars == <<routed>>

cacheVars == <<store, sets, got>>

breakdownVars == <<tally, tallyBreakdown, tallyDominant>>

contextVars == <<currentContext, inflight>>

vars == <<classifierVars, analyzeVars, database, now, limiterVars,
          middlewareVars, health, cacheVars, breakdownVars,
          contextVars>>

tables == <<KEYWORDS, CATEGORY_WEIGHT, SEVERITY_TIERS>>

\* longest article list a caller passes
MaxArticles == 3

\* what a direct call of the classifier leaves alone
outsideClassifier == <<analyzeVars, database, now, limiterVars, middlewareVars,
                       health, cacheVars, breakdownVars,
          contextVars>>
\* ------------------------------------------------------------------
\* JavaScript numbers.  Every `number` in lib/classifier.ts is an IEEE-754
\* binary64 value; the weights 0.9, 0.8, 0.7 and 0.3 are not exactly
\* representable, so products, sums and quotients are rounded to 53
\* significant bits (round-to-nearest, ties-to-even).  TLC integers are 32
\* bits wide, so a mantissa is kept as a little-endian sequence of 14-bit
\* limbs and a number is the record [sgn, m, e] of value sgn * m * 2^e with
\* m odd (or zero), which makes equal values equal records.
\* ------------------------------------------------------------------

LimbBits == 14

LimbBase == 16384

MantBits == 53

Pow2 == [k \in 0..30 |-> 2^k]

Limb(a, i) == IF i <= Len(a) THEN a[i] ELSE 0

RECURSIVE BNTrim(_)
BNTrim(a) ==
    IF a = <<>> THEN a
    ELSE IF a[Len(a)] = 0 THEN BNTrim(SubSeq(a, 1, Len(a) - 1)) ELSE a

RECURSIVE BNFromInt(_)
BNFromInt(n) ==
    IF n = 0 THEN <<>> ELSE <<n % LimbBase>> \o BNFromInt(n \div LimbBase)

RECURSIVE BNToInt(_)
BNToInt(a) ==
    IF a = <<>> THEN 0 ELSE a[1] + LimbBase * BNToInt(Tail(a))

RECURSIVE BNAddC(_, _, _, _)
BNAddC(a, b, i, c) ==
    IF i > Len(a) /\ i > Len(b)
    THEN (IF c = 0 THEN <<>> ELSE <<c>>)
    ELSE LET s == Limb(a, i) + Limb(b, i) + c
         IN  <<s % LimbBase>> \o BNAddC(a, b, i + 1, s \div LimbBase)

BNAdd(a, b) == BNAddC(a, b, 1, 0)

RECURSIVE BNSubC(_, _, _, _)
BNSubC(a, b, i, c) ==
    IF i > Len(a) THEN <<>>
    ELSE LET s == a[i] - Limb(b, i) - c
         IN  IF s < 0 THEN <<s + LimbBase>> \o BNSubC(a, b, i + 1, 1)
                      ELSE <<s>> \o BNSubC(a, b, i + 1, 0)

\* a - b for a >= b
BNSub(a, b) == BNTrim(BNSubC(a, b, 1, 0))

RECURSIVE BNCmpAt(_, _, _)
BNCmpAt(a, b, i) ==
    IF i = 0 THEN 0
    ELSE IF a[i] > b[i] THEN 1
    ELSE IF a[i] < b[i] THEN -1
    ELSE BNCmpAt(a, b, i - 1)

\* -1, 0, 1 as a < b, a = b, a > b
BNCmp(a, b) ==
    IF Len(a) > Len(b) THEN 1
    ELSE IF Len(a) < Len(b) THEN -1
    ELSE BNCmpAt(a, b, Len(a))

RECURSIVE BNMulC(_, _, _, _)
BNMulC(a, k, i, c) ==
    IF i > Len(a) THEN BNFromInt(c)
    ELSE LET s == a[i] * k + c
         IN  <<s % LimbBase>> \o BNMulC(a, k, i + 1, s \div LimbBase)

\* a * k for 0 <= k < 2^16
BNMulSmall(a, k) == IF k = 0 THEN <<>> ELSE BNMulC(a, k, 1, 0)

BNShlLimbs(a, n) == IF a = <<>> THEN a ELSE [i \in 1..n |-> 0] \o a

RECURSIVE BNMulAt(_, _, _)
BNMulAt(a, b, i) ==
    IF i > Len(b) THEN <<>>
    ELSE BNAdd(BNShlLimbs(BNMulSmall(a, b[i]), i - 1), BNMulAt(a, b, i + 1))

BNMul(a, b) == BNMulAt(a, b, 1)

\* a * 2^k
BNShl(a, k) == BNShlLimbs(BNMulSmall(a, Pow2[k % LimbBits]), k \div LimbBits)

\* floor(a / 2^k)
BNShr(a, k) ==
    LET n == k \div LimbBits
        p == Pow2[k % LimbBits]
        t == IF n >= Len(a) THEN <<>> ELSE SubSeq(a, n + 1, Len(a))
    IN  BNTrim([i \in 1..Len(t) |->
                  (t[i] \div p) + (Limb(t, i + 1) % p) * (LimbBase \div p)])

\* a mod 2^k
BNLowBits(a, k) ==
    LET n == k \div LimbBits
        p == Pow2[k % LimbBits]
    IN  IF n >= Len(a) THEN a
        ELSE BNTrim(SubSeq(a, 1, n) \o <<a[n + 1] % p>>)

RECURSIVE IntBitLen(_)
IntBitLen(n) == IF n = 0 THEN 0 ELSE 1 + IntBitLen(n \div 2)

BNBitLen(a) ==
    IF a = <<>> THEN 0 ELSE LimbBits * (Len(a) - 1) + IntBitLen(a[Len(a)])

BNBit(a, k) == (Limb(a, k \div LimbBits + 1) \div Pow2[k % LimbBits]) % 2

RECURSIVE BNTrailingZerosFrom(_, _)
BNTrailingZerosFrom(a, k) ==
    IF BNBit(a, k) = 1 THEN k ELSE BNTrailingZerosFrom(a, k + 1)

\* number of low zero bits of a non-zero a
BNTrailingZeros(a) == BNTrailingZerosFrom(a, 0)

\* Short division by one limb d, limb i of a downwards; st = <<quotient
\* limbs above i (little-endian), remainder>>.
RECURSIVE BNDivLimbStep(_, _, _, _)
BNDivLimbStep(a, d, i, st) ==
    IF i = 0 THEN st
    ELSE LET cur == st[2] * LimbBase + a[i]
         IN  BNDivLimbStep(a, d, i - 1, <<<<cur \div d>> \o st[1], cur % d>>)

\* Binary long division, bit k of a downwards; st = <<quotient, remainder>>.
RECURSIVE BNDivStep(_, _, _, _)
BNDivStep(a, b, k, st) ==
    IF k < 0 THEN st
    ELSE LET r2 == BNMulC(st[2], 2, 1, BNBit(a, k))
         IN  IF BNCmp(r2, b) >= 0
             THEN BNDivStep(a, b, k - 1, <<BNMulC(st[1], 2, 1, 1), BNSub(r2, b)>>)
             ELSE BNDivStep(a, b, k - 1, <<BNMulC(st[1], 2, 1, 0), r2>>)

\* <<floor(a / b), a mod b>> for b # 0.  The bits of a above its low
\* BNBitLen(a) - BNBitLen(b) + 1 ones are below b and start the remainder.
BNDivMod(a, b) ==
    IF Len(b) = 1
    THEN LET st == BNDivLimbStep(a, b[1], Len(a), <<<<>>, 0>>)
         IN  <<BNTrim(st[1]), BNFromInt(st[2])>>
    ELSE IF BNBitLen(a) < BNBitLen(b) THEN <<<<>>, a>>
    ELSE LET k == BNBitLen(a) - BNBitLen(b) + 1
         IN  BNDivStep(a, b, k - 1, <<<<>>, BNShr(a, k)>>)

FZero == [sgn |-> 1, m |-> <<>>, e |-> 0]

\* the number n * 2^e, n # 0 of at most 53 bits, with its mantissa made odd
FNorm(n, e) ==
    IF n = <<>> THEN FZero
    ELSE LET tz == BNTrailingZeros(n)
         IN  [sgn |-> 1, m |-> BNShr(n, tz), e |-> e + tz]

\* The binary64 value nearest to n * 2^e (plus a non-zero tail below the last
\* bit of n when sticky), ties to the even mantissa.
FRoundNearest(n, e, sticky) ==
    LET len == BNBitLen(n) IN
    IF len <= MantBits THEN FNorm(n, e)
    ELSE LET d    == len - MantBits
             q    == BNShr(n, d)
             c    == BNCmp(BNLowBits(n, d), BNShl(<<1>>, d - 1))
             up   == c = 1 \/ (c = 0 /\ (sticky \/ q[1] % 2 = 1))
         IN  FNorm(IF up THEN BNAdd(q, <<1>>) ELSE q, e + d)

\* a non-negative integer below 2^31 as a number
FromInt(n) == FNorm(BNFromInt(n), 0)

FNeg(x) == [x EXCEPT !.sgn = 0 - x.sgn]

\* x * y for x, y >= 0
FMul(x, y) == FRoundNearest(BNMul(x.m, y.m), x.e + y.e, FALSE)

\* x + y for x, y >= 0
FAdd(x, y) ==
    IF x.m = <<>> THEN y
    ELSE IF y.m = <<>> THEN x
    ELSE LET lo == IF x.e < y.e THEN x.e ELSE y.e
         IN  FRoundNearest(BNAdd(BNShl(x.m, x.e - lo), BNShl(y.m, y.e - lo)),
                           lo, FALSE)

\* x / y for x >= 0, y > 0; the quotient is cut at 56 bits or more and the
\* remainder is the sticky tail
FDiv(x, y) ==
    IF x.m = <<>> THEN FZero
    ELSE LET need == (MantBits + 3) + BNBitLen(y.m) - BNBitLen(x.m)
             k    == IF need > 0 THEN need ELSE 0
             qr   == BNDivMod(BNShl(x.m, k), y.m)
         IN  FRoundNearest(qr[1], x.e - y.e - k, qr[2] # <<>>)

\* -1, 0, 1 as |x| < |y|, |x| = |y|, |x| > |y|
FCmpMag(x, y) ==
    IF x.m = <<>> /\ y.m = <<>> THEN 0
    ELSE IF x.m = <<>> THEN -1
    ELSE IF y.m = <<>> THEN 1
    ELSE LET lo == IF x.e < y.e THEN x.e ELSE y.e
         IN  BNCmp(BNShl(x.m, x.e - lo), BNShl(y.m, y.e - lo))

\* x > y
FGt(x, y) ==
    IF x.sgn = 1 /\ y.sgn = 1 THEN FCmpMag(x, y) = 1
    ELSE IF x.sgn = 1 THEN y.m # <<>> \/ x.m # <<>>
    ELSE IF y.sgn = 1 THEN FALSE
    ELSE FCmpMag(x, y) = -1

\* Math.round(x) for x >= 0: floor(x + 1/2), computed exactly
MathRound(x) ==
    IF x.m = <<>> THEN 0
    ELSE IF x.e >= 0 THEN BNToInt(BNShl(x.m, x.e))
    ELSE BNToInt(BNShr(BNAdd(x.m, BNShl(<<1>>, (0 - x.e) - 1)), 0 - x.e))

\* Math.max / Math.min on the integers Math.round returns
MathMax(a, b) == IF a > b THEN a ELSE b

MathMin(a, b) == IF a < b THEN a ELSE b

\* the decimal literal n/100 of the source, e.g. 0.90, as the nearest number
Dec(n) == FDiv(FromInt(n), FromInt(100))

\* x - y for x >= y >= 0
FSub(x, y) ==
    IF y.m = <<>> THEN x
    ELSE LET lo == IF x.e < y.e THEN x.e ELSE y.e
         IN  FRoundNearest(BNSub(BNShl(x.m, x.e - lo), BNShl(y.m, y.e - lo)),
                           lo, FALSE)

\* x >= y
FGe(x, y) == ~FGt(y, x)

\* Math.min on numbers
FMin(x, y) == IF FGt(x, y) THEN y ELSE x

\* Math.floor(x) for x >= 0, as an integer
MathFloor(x) ==
    IF x.m = <<>> THEN 0
    ELSE IF x.e >= 0 THEN BNToInt(BNShl(x.m, x.e))
    ELSE BNToInt(BNShr(x.m, 0 - x.e))

\* Math.ceil(x) for x >= 0, as an integer: the mantissa is odd, so x is an
\* integer exactly when its exponent is not negative
MathCeil(x) ==
    IF x.m = <<>> \/ x.e >= 0 THEN MathFloor(x) ELSE MathFloor(x) + 1
\* ------------------------------------------------------------------
\* Strings.  A string is the sequence of its characters, so that
\* String.prototype.includes and toLowerCase are computed, not assumed.
\* ------------------------------------------------------------------

UpperCase == <<"A", "B", "C", "D", "E", "F", "G", "H", "I", "J", "K", "L", "M", "N", "O", "P", "Q", "R", "S", "T", "U", "V", "W", "X", "Y", "Z">>

LowerCase == <<"a", "b", "c", "d", "e", "f", "g", "h", "i", "j", "k", "l", "m", "n", "o", "p", "q", "r", "s", "t", "u", "v", "w", "x", "y", "z">>

\* the keyword dictionaries, in the key order of the object literal
KEYWORDS_INIT ==
    <<
       [cat |-> "Geopolitical", words |-> <<
          <<"w", "a", "r">>,
          <<"c", "o", "n", "f", "l", "i", "c", "t">>,
          <<"s", "a", "n", "c", "t", "i", "o", "n">>,
          <<"g", "e", "o", "p", "o", "l", "i", "t", "i", "c">>,
          <<"m", "i", "l", "i", "t", "a", "r", "y">>,
          <<"c", "o", "u", "p">>,
          <<"i", "n", "v", "a", "s", "i", "o", "n">>,
          <<"n", "u", "c", "l", "e", "a", "r">>,
          <<"t", "r", "e", "a", "t", "y">>,
          <<"n", "a", "t", "o">>,
          <<"t", "e", "r", "r", "o", "r", "i", "s", "m">>,
          <<"c", "e", "a", "s", "e", "f", "i", "r", "e">>,
          <<"t", "r", "o", "o", "p", "s">>,
          <<"m", "i", "s", "s", "i", "l", "e">>,
          <<"a", "i", "r", "s", "t", "r", "i", "k", "e">>,
          <<"a", "l", "l", "i", "a", "n", "c", "e">>,
          <<"d", "i", "p", "l", "o", "m", "a", "t", "i", "c", " ", "c", "r", "i", "s", "i", "s">>,
          <<"p", "o", "l", "i", "t", "i", "c", "a", "l", " ", "i", "n", "s", "t", "a", "b", "i", "l", "i", "t", "y">>,
          <<"r", "e", "b", "e", "l">>,
          <<"i", "n", "s", "u", "r", "g", "e", "n", "c", "y">>,
          <<"a", "n", "n", "e", "x", "a", "t", "i", "o", "n">>>>],
       [cat |-> "Monetary", words |-> <<
          <<"i", "n", "f", "l", "a", "t", "i", "o", "n">>,
          <<"i", "n", "t", "e", "r", "e", "s", "t", " ", "r", "a", "t", "e">>,
          <<"c", "e", "n", "t", "r", "a", "l", " ", "b", "a", "n", "k">>,
          <<"f", "e", "d", "e", "r", "a", "l", " ", "r", "e", "s", "e", "r", "v", "e">>,
          <<"f", "e", "d", " ", "r", "a", "t", "e">>,
          <<"e", "c", "b">>,
          <<"m", "o", "n", "e", "t", "a", "r", "y", " ", "p", "o", "l", "i", "c", "y">>,
          <<"r", "a", "t", "e", " ", "h", "i", "k", "e">>,
          <<"r", "a", "t", "e", " ", "c", "u", "t">>,
          <<"q", "u", "a", "n", "t", "i", "t", "a", "t", "i", "v", "e", " ", "e", "a", "s", "i", "n", "g">>,
          <<"c", "u", "r", "r", "e", "n", "c", "y">>,
          <<"d", "e", "f", "l", "a", "t", "i", "o", "n">>,
          <<"s", "t", "a", "g", "f", "l", "a", "t", "i", "o", "n">>,
          <<"b", "o", "n", "d", " ", "y", "i", "e", "l", "d">>,
          <<"t", "r", "e", "a", "s", "u", "r", "y">>,
          <<"r", "e", "p", "o", " ", "r", "a", "t", "e">>,
          <<"l", "i", "q", "u", "i", "d", "i", "t", "y">>>>],
       [cat |-> "Commodity", words |-> <<
          <<"o", "i", "l">>,
          <<"g", "o", "l", "d">>,
          <<"c", "o", "m", "m", "o", "d", "i", "t", "y">>,
          <<"e", "n", "e", "r", "g", "y">>,
          <<"c", "r", "u", "d", "e", " ", "o", "i", "l">>,
          <<"b", "r", "e", "n", "t">>,
          <<"o", "p", "e", "c">>,
          <<"f", "u", "e", "l">>,
          <<"c", "o", "p", "p", "e", "r">>,
          <<"w", "h", "e", "a", "t">>,
          <<"f", "o", "o", "d", " ", "p", "r", "i", "c", "e">>,
          <<"g", "r", "a", "i", "n">>,
          <<"n", "a", "t", "u", "r", "a", "l", " ", "g", "a", "s">>,
          <<"l", "n", "g">>,
          <<"r", "a", "r", "e", " ", "e", "a", "r", "t", "h">>,
          <<"s", "i", "l", "v", "e", "r">>,
          <<"c", "o", "f", "f", "e", "e">>>>],
       [cat |-> "SupplyChain", words |-> <<
          <<"s", "u", "p", "p", "l", "y", " ", "c", "h", "a", "i", "n">>,
          <<"l", "o", "g", "i", "s", "t", "i", "c", "s">>,
          <<"s", "h", "o", "r", "t", "a", "g", "e">>,
          <<"d", "i", "s", "r", "u", "p", "t", "i", "o", "n">>,
          <<"t", "r", "a", "d", "e", " ", "w", "a", "r">>,
          <<"t", "a", "r", "i", "f", "f">>,
          <<"i", "m", "p", "o", "r", "t", " ", "b", "a", "n">>,
          <<"e", "x", "p", "o", "r", "t", " ", "b", "a", "n">>,
          <<"s", "h", "i", "p", "p", "i", "n", "g">>,
          <<"p", "o", "r", "t">>,
          <<"s", "e", "m", "i", "c", "o", "n", "d", "u", "c", "t", "o", "r">>,
          <<"c", "h", "i", "p", " ", "s", "h", "o", "r", "t", "a", "g", "e">>,
          <<"f", "r", "e", "i", "g", "h", "t">>,
          <<"f", "a", "c", "t", "o", "r", "y", " ", "s", "h", "u", "t", "d", "o", "w", "n">>,
          <<"m", "a", "n", "u", "f", "a", "c", "t", "u", "r", "i", "n", "g">>,
          <<"i", "n", "v", "e", "n", "t", "o", "r", "y">>,
          <<"b", "o", "t", "t", "l", "e", "n", "e", "c", "k">>>>],
       [cat |-> "General", words |-> <<
          >>]
    >>

\* the severity tiers, in array order
SEVERITY_TIERS_INIT ==
    <<
       [boost |-> 40, words |-> <<
          <<"w", "a", "r">>,
          <<"c", "r", "a", "s", "h">>,
          <<"c", "o", "l", "l", "a", "p", "s", "e">>,
          <<"i", "n", "v", "a", "s", "i", "o", "n">>,
          <<"n", "u", "c", "l", "e", "a", "r">>,
          <<"c", "a", "t", "a", "s", "t", "r", "o", "p", "h", "i", "c">>,
          <<"e", "m", "e", "r", "g", "e", "n", "c", "y">>,
          <<"m", "e", "l", "t", "d", "o", "w", "n">>,
          <<"d", "e", "f", "a", "u", "l", "t">>,
          <<"h", "y", "p", "e", "r", "i", "n", "f", "l", "a", "t", "i", "o", "n">>,
          <<"f", "a", "m", "i", "n", "e">>>>],
       [boost |-> 25, words |-> <<
          <<"s", "u", "r", "g", "e">>,
          <<"s", "p", "i", "k", "e">>,
          <<"s", "a", "n", "c", "t", "i", "o", "n">>,
          <<"r", "e", "c", "e", "s", "s", "i", "o", "n">>,
          <<"s", "h", "o", "c", "k">>,
          <<"e", "s", "c", "a", "l", "a", "t", "i", "o", "n">>,
          <<"p", "l", "u", "n", "g", "e">>,
          <<"b", "a", "n">>,
          <<"f", "r", "e", "e", "z", "e">>,
          <<"b", "l", "o", "c", "k", "a", "d", "e">>,
          <<"h", "a", "l", "t">>>>],
       [boost |-> 12, words |-> <<
          <<"r", "i", "s", "e">>,
          <<"i", "n", "c", "r", "e", "a", "s", "e">>,
          <<"c", "o", "n", "c", "e", "r", "n">>,
          <<"t", "e", "n", "s", "i", "o", "n">>,
          <<"r", "i", "s", "k">>,
          <<"v", "o", "l", "a", "t", "i", "l", "e">>,
          <<"w", "a", "r", "n", "i", "n", "g">>,
          <<"t", "h", "r", "e", "a", "t">>,
          <<"i", "n", "s", "t", "a", "b", "i", "l", "i", "t", "y">>,
          <<"d", "o", "w", "n", "g", "r", "a", "d", "e">>,
          <<"s", "l", "o", "w", "d", "o", "w", "n">>>>]
    >>
\* the five risk categories, in the key order of the `counts` literal
RiskCategory == <<"Geopolitical", "Monetary", "Commodity", "SupplyChain", "General">>

CATEGORY_WEIGHT_INIT ==
    [Geopolitical |-> Dec(100),
     Monetary     |-> Dec(90),
     Commodity    |-> Dec(80),
     SupplyChain  |-> Dec(70),
     General      |-> Dec(30)]

BASELINE_BOOST == 5

\* An absent (null or undefined) value is <<>>, a present value v is <<v>>.
Absent == <<>>

Present(v) == <<v>>

\* x ?? dflt
Nullish(x, dflt) == IF x = Absent THEN dflt ELSE x[1]

Space == <<" ">>

lc(text) ==
    [i \in 1..Len(text) |->
        IF \E k \in 1..Len(UpperCase) : UpperCase[k] = text[i]
        THEN LowerCase[CHOOSE k \in 1..Len(UpperCase) : UpperCase[k] = text[i]]
        ELSE text[i]]

\* String.prototype.includes: w occurs in s at some offset
Includes(s, w) ==
    \E i \in 0..(Len(s) - Len(w)) : \A j \in 1..Len(w) : s[i + j] = w[j]

\* matchKeywords storing a list for every category, the empty ones too
matchKeywordsKeepingEmpty(text) ==
    LET lower == lc(text)
        matched(k) == SelectSeq(KEYWORDS[k].words, LAMBDA w : Includes(lower, w))
    IN  [k \in 1..Len(KEYWORDS) |->
            [cat |-> KEYWORDS[k].cat, words |-> matched(k)]]

\* The returned object is the sequence of its [cat, words] entries in
\* insertion order, which is the order Object.entries walks it in.
matchKeywords(text) ==
    LET lower == lc(text)
        matched(k) == SelectSeq(KEYWORDS[k].words, LAMBDA w : Includes(lower, w))
    IN  SelectSeq([k \in 1..Len(KEYWORDS) |->
                      [cat |-> KEYWORDS[k].cat, words |-> matched(k)]],
                  LAMBDA en : Len(en.words) > 0)

RECURSIVE pickCategoryFrom(_, _, _, _)
pickCategoryFrom(matches, i, best, bestScore) ==
    IF i > Len(matches) THEN best
    ELSE LET score == FMul(FromInt(Len(matches[i].words)),
                           CATEGORY_WEIGHT[matches[i].cat])
         IN  IF FGt(score, bestScore)
             THEN pickCategoryFrom(matches, i + 1, matches[i].cat, score)
             ELSE pickCategoryFrom(matches, i + 1, best, bestScore)

\* pickCategory with `>=` for `>`: the last category of the greatest score wins
RECURSIVE pickCategoryFromGe(_, _, _, _)
pickCategoryFromGe(matches, i, best, bestScore) ==
    IF i > Len(matches) THEN best
    ELSE LET score == FMul(FromInt(Len(matches[i].words)),
                           CATEGORY_WEIGHT[matches[i].cat])
         IN  IF ~FGt(bestScore, score)
             THEN pickCategoryFromGe(matches, i + 1, matches[i].cat, score)
             ELSE pickCategoryFromGe(matches, i + 1, best, bestScore)

pickCategoryLastWins(matches) ==
    pickCategoryFromGe(matches, 1, "General", FNeg(FromInt(1)))

\* pickCategory with bestScore starting at 1 for -1
pickCategoryAboveOne(matches) ==
    pickCategoryFrom(matches, 1, "General", FromInt(1))

pickCategory(matches) ==
    pickCategoryFrom(matches, 1, "General", FNeg(FromInt(1)))

RECURSIVE severityBoostFrom(_, _)
severityBoostFrom(lower, t) ==
    IF t > Len(SEVERITY_TIERS) THEN BASELINE_BOOST
    ELSE IF \E k \in 1..Len(SEVERITY_TIERS[t].words) :
               Includes(lower, SEVERITY_TIERS[t].words[k])
         THEN SEVERITY_TIERS[t].boost
         ELSE severityBoostFrom(lower, t + 1)

\* severityBoost without the baseline: 0 when no tier matches
severityBoostNoBaseline(text) ==
    LET hit(t) == \E k \in 1..Len(SEVERITY_TIERS[t].words) :
                      Includes(lc(text), SEVERITY_TIERS[t].words[k])
    IN  IF \E t \in 1..Len(SEVERITY_TIERS) : hit(t)
        THEN SEVERITY_TIERS[CHOOSE t \in 1..Len(SEVERITY_TIERS) :
                               hit(t) /\ \A u \in 1..(t - 1) : ~hit(u)].boost
        ELSE 0

\* severityBoost adding up the boosts of all matching tiers
severityBoostAdditive(text) ==
    LET hit(t) == \E k \in 1..Len(SEVERITY_TIERS[t].words) :
                      Includes(lc(text), SEVERITY_TIERS[t].words[k])
        sum[t \in 0..Len(SEVERITY_TIERS)] ==
            IF t = 0 THEN 0
            ELSE sum[t - 1] + (IF hit(t) THEN SEVERITY_TIERS[t].boost ELSE 0)
    IN  IF sum[Len(SEVERITY_TIERS)] = 0 THEN BASELINE_BOOST
        ELSE sum[Len(SEVERITY_TIERS)]

severityBoost(text) == severityBoostFrom(lc(text), 1)

clamp(value, min, max) == MathMax(min, MathMin(max, value))

\* scoreArticle on a 0-100 base scale, the sum returned unclamped
scoreArticleUnclamped(category, text) ==
    LET base  == FMul(CATEGORY_WEIGHT[category], FromInt(100))
        boost == severityBoost(text)
    IN  MathRound(FAdd(base, FromInt(boost)))

\* scoreArticle with a scale factor of 50 for 60
scoreArticleScale50(category, text) ==
    LET base  == FMul(CATEGORY_WEIGHT[category], FromInt(50))
        boost == severityBoost(text)
    IN  clamp(MathRound(FAdd(base, FromInt(boost))), 0, 100)

\* scoreArticle without the severity boost
scoreArticleNoBoost(category, text) ==
    LET base == FMul(CATEGORY_WEIGHT[category], FromInt(60))
    IN  clamp(MathRound(base), 0, 100)

scoreArticle(category, text) ==
    LET base  == FMul(CATEGORY_WEIGHT[category], FromInt(60))
        boost == severityBoost(text)
    IN  clamp(MathRound(FAdd(base, FromInt(boost))), 0, 100)

\* toImpactLevel with `<` for `<=`
toImpactLevelExclusive(score) ==
    IF score < 30 THEN "LOW"
    ELSE IF score < 70 THEN "MEDIUM"
    ELSE "HIGH"

toImpactLevel(score) ==
    IF score <= 30 THEN "LOW"
    ELSE IF score <= 70 THEN "MEDIUM"
    ELSE "HIGH"

\* the map callback passing description through as it came
classifyOneRawDescription(a) ==
    LET text       == Nullish(a.title, <<>>) \o Space \o Nullish(a.description, <<>>)
        matches    == matchKeywords(text)
        category   == pickCategory(matches)
        score      == scoreArticle(category, text)
        sourceName == IF a.source.kind = "string" THEN a.source.name[1]
                      ELSE IF a.source.kind = "object"
                           THEN Nullish(a.source.name, "Unknown")
                           ELSE "Unknown"
    IN  [title          |-> a.title,
         description    |-> a.description,
         source         |-> sourceName,
         url            |-> a.url,
         publishedAt    |-> a.publishedAt,
         riskCategory   |-> category,
         articleScore   |-> score,
         keywordMatches |-> matches]

\* the callback of rawArticles.map
classifyOne(a) ==
    LET text       == Nullish(a.title, <<>>) \o Space \o Nullish(a.description, <<>>)
        matches    == matchKeywords(text)
        category   == pickCategory(matches)
        score      == scoreArticle(category, text)
        sourceName == IF a.source.kind = "string" THEN a.source.name[1]
                      ELSE IF a.source.kind = "object"
                           THEN Nullish(a.source.name, "Unknown")
                           ELSE "Unknown"
    IN  [title          |-> a.title,
         description    |-> Nullish(a.description, <<>>),
         source         |-> sourceName,
         url            |-> a.url,
         publishedAt    |-> a.publishedAt,
         riskCategory   |-> category,
         articleScore   |-> score,
         keywordMatches |-> matches]

\* the classified articles collected newest first
RECURSIVE mapArticlesReversed(_, _)
mapArticlesReversed(articles, i) ==
    IF i > Len(articles) THEN <<>>
    ELSE mapArticlesReversed(articles, i + 1) \o <<classifyOne(articles[i])>>

\* rawArticles.map(callback), article i onwards
RECURSIVE mapArticles(_, _)
mapArticles(articles, i) ==
    IF i > Len(articles) THEN <<>>
    ELSE <<classifyOne(articles[i])>> \o mapArticles(articles, i + 1)

\* the loop of step 2 with totalWeight counting the articles
RECURSIVE weightedSumsUnitWeight(_, _, _)
weightedSumsUnitWeight(classified, i, st) ==
    IF i > Len(classified) THEN st
    ELSE LET w == CATEGORY_WEIGHT[classified[i].riskCategory]
         IN  weightedSumsUnitWeight(classified, i + 1,
                <<FAdd(st[1], FMul(FromInt(classified[i].articleScore), w)),
                  FAdd(st[2], FromInt(1))>>)

\* the loop of step 2: st = <<weightedSum, totalWeight>> after i - 1 articles
RECURSIVE weightedSums(_, _, _)
weightedSums(classified, i, st) ==
    IF i > Len(classified) THEN st
    ELSE LET w == CATEGORY_WEIGHT[classified[i].riskCategory]
         IN  weightedSums(classified, i + 1,
                <<FAdd(st[1], FMul(FromInt(classified[i].articleScore), w)),
                  FAdd(st[2], w)>>)

\* the loop of step 3: counts[a.riskCategory]++
RECURSIVE countCategories(_, _, _)
countCategories(classified, i, counts) ==
    IF i > Len(classified) THEN counts
    ELSE countCategories(classified, i + 1,
            [counts EXCEPT ![classified[i].riskCategory] = @ + 1])

\* the loop of step 4 comparing the weights alone, whatever the counts
RECURSIVE dominantFromWeightOnly(_, _, _, _)
dominantFromWeightOnly(counts, i, dominant, domScore) ==
    IF i > Len(RiskCategory) THEN dominant
    ELSE LET cat == RiskCategory[i]
             s   == CATEGORY_WEIGHT[cat]
         IN  IF FGt(s, domScore)
             THEN dominantFromWeightOnly(counts, i + 1, cat, s)
             ELSE dominantFromWeightOnly(counts, i + 1, dominant, domScore)

\* the loop of step 4 over Object.entries(counts)
RECURSIVE dominantFrom(_, _, _, _)
dominantFrom(counts, i, dominant, domScore) ==
    IF i > Len(RiskCategory) THEN dominant
    ELSE LET cat == RiskCategory[i]
             s   == FMul(FromInt(counts[cat]), CATEGORY_WEIGHT[cat])
         IN  IF FGt(s, domScore)
             THEN dominantFrom(counts, i + 1, cat, s)
             ELSE dominantFrom(counts, i + 1, dominant, domScore)

\* percentage without the factor 100
percentageFraction(count, total) ==
    MathRound(FDiv(FromInt(count), FromInt(total)))

percentage(count, total) ==
    MathRound(FMul(FDiv(FromInt(count), FromInt(total)), FromInt(100)))

\* categoryBreakdown with General taken as the rest up to 100
categoryBreakdownRemainder(counts, total) ==
    LET g == percentage(counts.Geopolitical, total)
        m == percentage(counts.Monetary, total)
        c == percentage(counts.Commodity, total)
        s == percentage(counts.SupplyChain, total)
    IN  [Geopolitical |-> g, Monetary |-> m, Commodity |-> c, SupplyChain |-> s,
         General |-> 100 - (g + m + c + s)]

\* the categoryBreakdown literal of step 3
categoryBreakdownOf(counts, total) ==
    [Geopolitical |-> percentage(counts.Geopolitical, total),
     Monetary     |-> percentage(counts.Monetary, total),
     Commodity    |-> percentage(counts.Commodity, total),
     SupplyChain  |-> percentage(counts.SupplyChain, total),
     General      |-> percentage(counts.General, total)]

classifyArticles(articles) ==
    LET classified   == mapArticles(articles, 1)
        sums         == weightedSums(classified, 1, <<FZero, FZero>>)
        weightedSum  == sums[1]
        totalWeight  == sums[2]
        overallScore == IF FGt(totalWeight, FZero)
                        THEN clamp(MathRound(FDiv(weightedSum, totalWeight)), 0, 100)
                        ELSE 0
        counts       == countCategories(classified, 1,
                            [Geopolitical |-> 0, Monetary |-> 0, Commodity |-> 0,
                             SupplyChain |-> 0, General |-> 0])
        total        == IF Len(classified) # 0 THEN Len(classified) ELSE 1
    IN  [overallScore      |-> overallScore,
         impactLevel       |-> toImpactLevel(overallScore),
         dominantCategory  |-> dominantFrom(counts, 1, "General", FNeg(FromInt(1))),
         categoryBreakdown |-> categoryBreakdownOf(counts, total),
         articles          |-> classified]
\* ------------------------------------------------------------------
\* Callers.  The articles a news source can supply.
\* ------------------------------------------------------------------

NoSource == [kind |-> "undefined", name |-> Absent]

StringSource(s) == [kind |-> "string", name |-> Present(s)]

ObjectSource(n) == [kind |-> "object", name |-> n]

RawArticle(title, description, source, url) ==
    [title |-> title, description |-> description, source |-> source,
     url |-> url, publishedAt |-> "2024-01-01T00:00:00Z"]

ArticlePool ==
    { RawArticle(Present(<<"Q","u","i","e","t"," ","d","a","y">>), Absent,
                 NoSource, "u1"),
      RawArticle(Present(<<"C","r","a","s","h"," ","h","a","l","t"," ","r","i","s","k">>),
                 Absent,
                 ObjectSource(Absent), "u2"),
      RawArticle(Present(<<"I","n","f","l","a","t","i","o","n">>),
                 Present(<<"s","u","r","g","e">>), StringSource("Reuters"), "u3"),
      RawArticle(Present(<<"T","a","r","i","f","f">>),
                 Present(<<"c","o","n","c","e","r","n">>),
                 StringSource("AP"), "u4"),
      RawArticle(Present(<<"S","u","p","p","l","y">>),
                 Present(<<"c","h","a","i","n">>), NoSource, "u5"),
      RawArticle(Present(<<"W","a","r"," ","c","o","u","p"," ","n","a","t","o",
                           " ","r","e","b","e","l">>),
                 Present(<<"o","i","l"," ","g","o","l","d"," ","f","u","e","l",
                           " ","b","r","e","n","t"," ","o","p","e","c">>),
                 ObjectSource(Present("BBC")), "u6"),
      RawArticle(Present(<<"G","o","l","d"," ","a","n","d"," ","o","i","l",
                           " ","W","a","r","r","a","n","t","y">>),
                 Present(<<>>), NoSource, "u7") }

\* largest score a caller passes to toImpactLevel
MaxScore == 100

\* the news source hands the caller one more article
Receive(a) ==
    /\ Len(rawArticles) < MaxArticles
    /\ rawArticles' = Append(rawArticles, a)
    /\ assessment' = Absent
    /\ previous' = Absent
    /\ impact' = Absent
    /\ UNCHANGED <<tables, outsideClassifier>>

\* the caller drops the list it holds
Discard ==
    /\ rawArticles # <<>>
    /\ rawArticles' = <<>>
    /\ assessment' = Absent
    /\ previous' = Absent
    /\ impact' = Absent
    /\ UNCHANGED <<tables, outsideClassifier>>

\* A call that also registers the titles it saw as General keywords.
ClassifyRegistering ==
    /\ assessment' = Present(classifyArticles(rawArticles))
    /\ previous' = assessment
    /\ impact' = Absent
    /\ KEYWORDS' = [KEYWORDS EXCEPT ![Len(KEYWORDS)].words =
                       [i \in 1..Len(rawArticles) |->
                           lc(Nullish(rawArticles[i].title, <<>>))]]
    /\ UNCHANGED <<CATEGORY_WEIGHT, SEVERITY_TIERS, rawArticles, outsideClassifier>>

\* the caller invokes classifyArticles(rawArticles); the call runs to
\* completion, so calls of concurrent requests happen one after another
Classify ==
    /\ assessment' = Present(classifyArticles(rawArticles))
    /\ previous' = assessment
    /\ impact' = Absent
    /\ UNCHANGED <<tables, rawArticles, outsideClassifier>>

\* a caller that holds no list invokes the exported toImpactLevel(score)
ImpactLevel(score) ==
    /\ rawArticles = <<>>
    /\ impact' = Present(<<score, toImpactLevel(score)>>)
    /\ assessment' = Absent
    /\ previous' = Absent
    /\ UNCHANGED <<tables, rawArticles, outsideClassifier>>


\* ------------------------------------------------------------------
\* app/api/analyze/route.ts: one POST /api/analyze request, step by step.
\* ------------------------------------------------------------------

\* what the request leaves alone
outsideAnalyze == <<tables, previous, impact, now, limiterVars, middlewareVars,
                    health, cacheVars, breakdownVars,
          contextVars>>

\* longest list fetchLatestNews hands the route
MaxFetched == 2

\* a thrown Error with a message, and a thrown value that is no Error
ErrorOf(message) == [isError |-> TRUE, message |-> message]

NotAnError == [isError |-> FALSE, message |-> <<>>]

\* what generateExecutiveSummary can throw
GeminiErrors ==
    { ErrorOf(<<"[","4","0","0"," ","B","a","d"," ","R","e","q","u","e","s","t","]"," ","A","P","I","_","K","E","Y","_","I","N","V","A","L","I","D">>),
      ErrorOf(<<"A","P","I"," ","k","e","y"," ","n","o","t"," ","v","a","l","i","d","."," ","P","l","e","a","s","e"," ","p","a","s","s"," ","a"," ","v","a","l","i","d"," ","A","P","I"," ","k","e","y",".">>),
      ErrorOf(<<"m","o","d","e","l","s","/","g","e","m","i","n","i","-","1",".","5","-","p","r","o"," ","i","s"," ","n","o","t"," ","f","o","u","n","d"," ","f","o","r"," ","A","P","I"," ","v","e","r","s","i","o","n"," ","v","1","b","e","t","a">>),
      ErrorOf(<<"4","0","4"," ","N","o","t"," ","F","o","u","n","d">>),
      ErrorOf(<<"Q","u","o","t","a"," ","e","x","c","e","e","d","e","d">>),
      ErrorOf(<<"4","2","9"," ","R","a","t","e"," ","l","i","m","i","t">>),
      ErrorOf(<<"G","E","M","I","N","I","_","A","P","I","_","K","E","Y"," ","i","s"," ","n","o","t"," ","s","e","t"," ","i","n"," ","e","n","v","i","r","o","n","m","e","n","t",".">>),
      NotAnError }

\* what fetchLatestNews and the MySQL driver can throw
ServiceErrors == { ErrorOf("ECONNREFUSED"), NotAnError }

buildGeminiFallback(err) ==
    LET msg == IF err.isError THEN lc(err.message) ELSE <<>>
    IN  IF Includes(msg, <<"a","p","i","_","k","e","y","_","i","n","v","a","l","i","d">>)
           \/ Includes(msg, <<"a","p","i"," ","k","e","y"," ","n","o","t"," ","v","a","l","i","d">>)
        THEN "AI summary unavailable: GEMINI_API_KEY is invalid. Generate a new key in Google AI Studio and update .env.local."
        ELSE IF Includes(msg, <<"n","o","t"," ","f","o","u","n","d">>) /\ Includes(msg, <<"m","o","d","e","l","s","/">>)
        THEN "AI summary unavailable: GEMINI_MODEL is unavailable for this API key. Update GEMINI_MODEL in .env.local."
        ELSE IF Includes(msg, <<"q","u","o","t","a">>) \/ Includes(msg, <<"r","a","t","e"," ","l","i","m","i","t">>)
        THEN "AI summary unavailable: Gemini quota/rate limit reached. Retry later; risk scoring is unaffected."
        ELSE "AI summary temporarily unavailable. The risk scoring above is unaffected. Check GEMINI_API_KEY, GEMINI_MODEL, and Gemini API access."

\* NextResponse.json(body, { status })
Json(status, body) == Present([status |-> status, body |-> body])

\* the outer catch of POST
ServerError(err) ==
    Json(500, [error |-> IF err.isError THEN err.message ELSE "Unknown error."])

\* the article lists fetchLatestNews can return
RECURSIVE ListsOf(_)
ListsOf(n) ==
    IF n = 0 THEN {<<>>}
    ELSE ListsOf(n - 1) \cup
         {Append(l, a) : l \in {m \in ListsOf(n - 1) : Len(m) = n - 1},
                         a \in ArticlePool}

\* an entry of the call log: the collaborator called and whether it threw
Call(fn, threw) == [fn |-> fn, threw |-> threw]

\* step 2 without the guard on an empty list
FetchNewsUnguarded(articles) ==
    /\ pc = "fetch"
    /\ invoked' = Append(invoked, Call("fetchLatestNews", FALSE))
    /\ rawArticles' = articles
    /\ response' = response
    /\ pc' = "classify"
    /\ UNCHANGED <<user, assessment, aiSummary, database, conn, outsideAnalyze>>

\* step 1: getAuthUser()
Authenticate(u) ==
    /\ pc = "auth"
    /\ user' = u
    /\ invoked' = Append(invoked, Call("getAuthUser", FALSE))
    /\ IF u = Absent
       THEN /\ response' = Json(401, [error |-> "Unauthorized."])
            /\ pc' = "done"
       ELSE /\ response' = response
            /\ pc' = "fetch"
    /\ UNCHANGED <<rawArticles, assessment, aiSummary, database, conn, outsideAnalyze>>

\* step 2: fetchLatestNews() returns a list
FetchNews(articles) ==
    /\ pc = "fetch"
    /\ invoked' = Append(invoked, Call("fetchLatestNews", FALSE))
    /\ rawArticles' = articles
    /\ IF Len(articles) = 0
       THEN /\ response' = Json(502, [error |-> "NewsAPI returned no articles. Verify your NEWS_API_KEY and daily quota."])
            /\ pc' = "done"
       ELSE /\ response' = response
            /\ pc' = "classify"
    /\ UNCHANGED <<user, assessment, aiSummary, database, conn, outsideAnalyze>>

\* step 2: fetchLatestNews() throws
FetchNewsThrows(err) ==
    /\ pc = "fetch"
    /\ invoked' = Append(invoked, Call("fetchLatestNews", TRUE))
    /\ response' = ServerError(err)
    /\ pc' = "done"
    /\ UNCHANGED <<user, rawArticles, assessment, aiSummary, database, conn, outsideAnalyze>>

\* step 3: classifyArticles(rawArticles)
ClassifyNews ==
    /\ pc = "classify"
    /\ invoked' = Append(invoked, Call("classifyArticles", FALSE))
    /\ assessment' = Present(classifyArticles(rawArticles))
    /\ pc' = "summary"
    /\ UNCHANGED <<user, rawArticles, aiSummary, response, database, conn, outsideAnalyze>>

\* step 4: generateExecutiveSummary(assessment) returns text
Summarise(text) ==
    /\ pc = "summary"
    /\ invoked' = Append(invoked, Call("generateExecutiveSummary", FALSE))
    /\ aiSummary' = Present(text)
    /\ pc' = "persist"
    /\ UNCHANGED <<user, rawArticles, assessment, response, database, conn, outsideAnalyze>>

\* step 4 with the Gemini error thrown on to the outer catch
SummariseThrowsUncaught(geminiErr) ==
    /\ pc = "summary"
    /\ invoked' = Append(invoked, Call("generateExecutiveSummary", TRUE))
    /\ response' = ServerError([isError |-> geminiErr.isError, message |-> "Gemini failed"])
    /\ pc' = "done"
    /\ UNCHANGED <<user, rawArticles, assessment, aiSummary, database, conn, outsideAnalyze>>

\* step 4: generateExecutiveSummary(assessment) throws
SummariseThrows(geminiErr) ==
    /\ pc = "summary"
    /\ invoked' = Append(invoked, Call("generateExecutiveSummary", TRUE))
    /\ aiSummary' = Present(buildGeminiFallback(geminiErr))
    /\ pc' = "persist"
    /\ UNCHANGED <<user, rawArticles, assessment, response, database, conn, outsideAnalyze>>

\* String.prototype.slice(0, n) of a character sequence
SliceTo(s, n) == SubSeq(s, 1, IF Len(s) < n THEN Len(s) ELSE n)

\* the values of the INSERT INTO impact_assessments
AssessmentRow(id, result, summary) ==
    [id                 |-> id,
     triggered_by       |-> user[1].userId,
     overall_score      |-> result.overallScore,
     impact_level       |-> result.impactLevel,
     dominant_category  |-> result.dominantCategory,
     category_breakdown |-> result.categoryBreakdown,
     article_count      |-> Len(result.articles),
     ai_summary         |-> summary]

\* the values of the INSERT INTO events for one classified article
EventRow(id, article) ==
    [id              |-> id,
     title           |-> SliceTo(article.title[1], 999),
     description     |-> SliceTo(article.description, 2000),
     source_name     |-> article.source,
     url             |-> article.url,
     published_at    |-> article.publishedAt,
     risk_category   |-> article.riskCategory,
     article_score   |-> article.articleScore,
     keyword_matches |-> article.keywordMatches]

\* the body of the 200 response
ResultBody(assessmentId, result, summary) ==
    [assessmentId      |-> assessmentId,
     overallScore      |-> result.overallScore,
     impactLevel       |-> result.impactLevel,
     dominantCategory  |-> result.dominantCategory,
     categoryBreakdown |-> result.categoryBreakdown,
     articleCount      |-> Len(result.articles),
     aiSummary         |-> summary,
     articles          |-> [i \in 1..Len(result.articles) |->
                              [title        |-> result.articles[i].title,
                               description  |-> result.articles[i].description,
                               source       |-> result.articles[i].source,
                               url          |-> result.articles[i].url,
                               publishedAt  |-> result.articles[i].publishedAt,
                               riskCategory |-> result.articles[i].riskCategory,
                               articleScore |-> result.articles[i].articleScore]]]

\* the statements of the transaction for n articles: beginTransaction, the
\* assessment insert, an event insert and a link insert per article, commit
Statements(n) == 2 * n + 3

\* the driver method statement k of a transaction for n articles calls
StatementName(k, n) ==
    IF k = 1 THEN "conn.beginTransaction"
    ELSE IF k = Statements(n) THEN "conn.commit"
    ELSE "conn.query"

\* a connection fresh from the pool: no statement executed, nothing written
FreshConnection ==
    [statements |-> 0, impact_assessments |-> <<>>, events |-> <<>>,
     assessment_events |-> <<>>]

\* the connection after its next statement, number k of the transaction,
\* has executed: the rows written so far are visible to this connection only
AfterStatement(c, k, result, summary) ==
    LET assessmentId == Len(database.impact_assessments) + 1
        i            == (k - 1) \div 2
    IN  IF k = 1 THEN [c EXCEPT !.statements = k]
        ELSE IF k = 2
        THEN [c EXCEPT !.statements = k,
                       !.impact_assessments =
                           Append(@, AssessmentRow(assessmentId, result, summary))]
        ELSE IF k % 2 = 1
        THEN [c EXCEPT !.statements = k,
                       !.events =
                           Append(@, EventRow(Len(database.events) + i,
                                              result.articles[i]))]
        ELSE [c EXCEPT !.statements = k,
                       !.assessment_events =
                           Append(@, <<c.impact_assessments[1].id,
                                       c.events[i].id>>)]

\* the catch of step 5 without the rollback: the rows written before the
\* failing statement stay
PersistThrowsKeepingRows(dbErr, rollbackErr) ==
    /\ pc = "transaction"
    /\ invoked' = Append(invoked,
                    Call(StatementName(conn[1].statements + 1,
                                       Len(assessment[1].articles)), TRUE))
    /\ database' = [database EXCEPT
                       !.impact_assessments = @ \o conn[1].impact_assessments,
                       !.events = @ \o conn[1].events,
                       !.assessment_events = @ \o conn[1].assessment_events,
                       !.released = @ + 1]
    /\ conn' = Absent
    /\ response' = ServerError(dbErr)
    /\ pc' = "done"
    /\ UNCHANGED <<user, rawArticles, assessment, aiSummary, outsideAnalyze>>

\* step 5: db.getConnection() returns a connection
Connect ==
    /\ pc = "persist"
    /\ invoked' = Append(invoked, Call("db.getConnection", FALSE))
    /\ database' = [database EXCEPT !.acquired = @ + 1]
    /\ conn' = Present(FreshConnection)
    /\ pc' = "transaction"
    /\ UNCHANGED <<user, rawArticles, assessment, aiSummary, response, outsideAnalyze>>

\* step 5: db.getConnection() throws
ConnectThrows(err) ==
    /\ pc = "persist"
    /\ invoked' = Append(invoked, Call("db.getConnection", TRUE))
    /\ response' = ServerError(err)
    /\ pc' = "done"
    /\ UNCHANGED <<user, rawArticles, assessment, aiSummary, database, conn,
                   outsideAnalyze>>

\* step 5: the next statement before the commit executes
Execute ==
    /\ pc = "transaction"
    /\ conn[1].statements + 1 < Statements(Len(assessment[1].articles))
    /\ conn' = Present(AfterStatement(conn[1], conn[1].statements + 1,
                                      assessment[1], aiSummary[1]))
    /\ invoked' = Append(invoked,
                    Call(StatementName(conn[1].statements + 1,
                                       Len(assessment[1].articles)), FALSE))
    /\ UNCHANGED <<pc, user, rawArticles, assessment, aiSummary, response,
                   database, outsideAnalyze>>

\* step 5 and 6: conn.commit() makes the rows visible, finally releases the
\* connection, and the result is returned
Commit ==
    /\ pc = "transaction"
    /\ conn[1].statements + 1 = Statements(Len(assessment[1].articles))
    /\ invoked' = Append(invoked, Call("conn.commit", FALSE))
    /\ database' = [database EXCEPT
                       !.impact_assessments = @ \o conn[1].impact_assessments,
                       !.events = @ \o conn[1].events,
                       !.assessment_events = @ \o conn[1].assessment_events,
                       !.released = @ + 1]
    /\ conn' = Absent
    /\ response' = Json(200, ResultBody(conn[1].impact_assessments[1].id,
                                        assessment[1], aiSummary[1]))
    /\ pc' = "done"
    /\ UNCHANGED <<user, rawArticles, assessment, aiSummary, outsideAnalyze>>

\* step 5: the next statement (the commit included) throws dbErr: the catch
\* rolls back and rethrows, finally releases the connection, the outer catch
\* answers.  When conn.rollback() throws too, its error is the one rethrown;
\* the connection is lost and the server discards its open transaction.
PersistThrows(dbErr, rollbackErr) ==
    /\ pc = "transaction"
    /\ invoked' = invoked \o
                    <<Call(StatementName(conn[1].statements + 1,
                                         Len(assessment[1].articles)), TRUE),
                      Call("conn.rollback", rollbackErr # Absent)>>
    /\ database' = [database EXCEPT !.released = @ + 1]
    /\ conn' = Absent
    /\ response' = ServerError(Nullish(rollbackErr, dbErr))
    /\ pc' = "done"
    /\ UNCHANGED <<user, rawArticles, assessment, aiSummary, outsideAnalyze>>

InitAnalyze ==
    /\ pc = "auth"
    /\ user = Absent
    /\ aiSummary = Absent
    /\ response = Absent
    /\ invoked = <<>>
    /\ conn = Absent
    /\ database = [impact_assessments |-> <<>>, events |-> <<>>,
                   assessment_events |-> <<>>, acquired |-> 0, released |-> 0]

NextAnalyze ==
    \/ \E u \in {Absent, Present([userId |-> 1])} : Authenticate(u)
    \/ \E articles \in ListsOf(MaxFetched) : FetchNews(articles)
    \/ \E err \in ServiceErrors : FetchNewsThrows(err)
    \/ ClassifyNews
    \/ \E text \in {"Brief."} : Summarise(text)
    \/ \E geminiErr \in GeminiErrors : SummariseThrows(geminiErr)
    \/ Connect
    \/ \E err \in ServiceErrors : ConnectThrows(err)
    \/ Execute
    \/ Commit
    \/ \E dbErr \in ServiceErrors, rollbackErr \in {Absent, Present(ErrorOf("ECONNRESET"))} :
          PersistThrows(dbErr, rollbackErr)

\* ------------------------------------------------------------------
\* lib/rateLimiter.ts: the token bucket behind authLimiter.
\* ------------------------------------------------------------------

\* what the rate limiter leaves alone
outsideLimiter == <<classifierVars, analyzeVars, database, middlewareVars,
                    health, cacheVars, breakdownVars,
          contextVars>>

\* new RateLimiter({ maxTokens: 10, refillRate: 10 / 60 })
authLimiter ==
    [maxTokens  |-> FromInt(10),
     refillRate |-> FDiv(FromInt(10), FromInt(60))]

\* the keys (client addresses) that call in
Keys == {"10.0.0.1", "10.0.0.2"}

\* latest time, in milliseconds after start-up, at which a call is made
MaxNow == 8000

\* the calls of check made in all
MaxChecks == 12

\* the steps Date.now() is seen to advance by between calls
ClockSteps == {6000}

\* the steps Date.now() advances by between the calls of a client that waits
\* and tries again
RetrySteps == {2000, 4000}

\* check with Math.floor for Math.ceil in resetIn
checkFloorResetIn(config, bs, key, t) ==
    LET bucket      == IF key \in DOMAIN bs THEN bs[key]
                       ELSE [tokens |-> config.maxTokens, lastRefill |-> t]
        elapsed     == FDiv(FromInt(t - bucket.lastRefill), FromInt(1000))
        tokensToAdd == FMul(elapsed, config.refillRate)
        refilled    == FMin(config.maxTokens, FAdd(bucket.tokens, tokensToAdd))
        allowed     == FGe(refilled, FromInt(1))
        tokens      == IF allowed THEN FSub(refilled, FromInt(1)) ELSE refilled
        resetIn     == IF allowed THEN 0
                       ELSE MathFloor(FDiv(FSub(FromInt(1), tokens),
                                           config.refillRate)) * 1000
    IN  << [k \in DOMAIN bs \cup {key} |->
               IF k = key THEN [tokens |-> tokens, lastRefill |-> t] ELSE bs[k]],
           [allowed |-> allowed, remaining |-> MathFloor(tokens),
            resetIn |-> resetIn] >>

\* RateLimiter.check(key) at time t on the buckets bs:
\* <<the buckets afterwards, the object returned>>
check(config, bs, key, t) ==
    LET bucket      == IF key \in DOMAIN bs THEN bs[key]
                       ELSE [tokens |-> config.maxTokens, lastRefill |-> t]
        elapsed     == FDiv(FromInt(t - bucket.lastRefill), FromInt(1000))
        tokensToAdd == FMul(elapsed, config.refillRate)
        refilled    == FMin(config.maxTokens, FAdd(bucket.tokens, tokensToAdd))
        allowed     == FGe(refilled, FromInt(1))
        tokens      == IF allowed THEN FSub(refilled, FromInt(1)) ELSE refilled
        resetIn     == IF allowed THEN 0
                       ELSE MathCeil(FDiv(FSub(FromInt(1), tokens),
                                          config.refillRate)) * 1000
    IN  << [k \in DOMAIN bs \cup {key} |->
               IF k = key THEN [tokens |-> tokens, lastRefill |-> t] ELSE bs[k]],
           [allowed |-> allowed, remaining |-> MathFloor(tokens),
            resetIn |-> resetIn] >>

\* the checks of key so far
ChecksOf(key) == IF key \in DOMAIN checks THEN checks[key] ELSE <<>>

ChecksMade == LET n[K \in SUBSET Keys] ==
                      IF K = {} THEN 0
                      ELSE LET k == CHOOSE x \in K : TRUE
                           IN  Len(ChecksOf(k)) + n[K \ {k}]
              IN  n[Keys]

\* a request of key reaches authLimiter.check(key)
Check(key) ==
    /\ ChecksMade < MaxChecks
    /\ LET r == check(authLimiter, buckets, key, now)
       IN  /\ buckets' = r[1]
           /\ checks' = [k \in DOMAIN checks \cup {key} |->
                            IF k = key
                            THEN Append(ChecksOf(key),
                                        [at |-> now, result |-> r[2]])
                            ELSE checks[k]]
    /\ UNCHANGED <<now, outsideLimiter>>

\* time passes between two calls
Tick(ms) ==
    /\ now + ms <= MaxNow
    /\ now' = now + ms
    /\ UNCHANGED <<limiterVars, outsideLimiter>>

InitLimiter ==
    /\ now = 0
    /\ buckets = <<>>
    /\ checks = <<>>

NextLimiter ==
    \/ \E key \in Keys : Check(key)
    \/ \E ms \in ClockSteps : Tick(ms)

\* one client calling, waiting and calling again
NextRetry ==
    \/ Check("10.0.0.1")
    \/ \E ms \in RetrySteps : Tick(ms)

\* ------------------------------------------------------------------
\* middleware.ts: the gate in front of /dashboard, /login and /register.
\* ------------------------------------------------------------------

\* what the middleware leaves alone
outsideMiddleware == <<classifierVars, analyzeVars, database, now, limiterVars,
                       health, cacheVars, breakdownVars,
          contextVars>>

COOKIE_NAME == "eip_session"

PROTECTED == << <<"/","d","a","s","h","b","o","a","r","d">> >>

AUTH_PAGES == << <<"/","l","o","g","i","n">>, <<"/","r","e","g","i","s","t","e","r">> >>

\* requests handled in one behaviour
MaxRequests == 2

\* String.prototype.startsWith
StartsWith(s, p) == Len(p) <= Len(s) /\ SubSeq(s, 1, Len(p)) = p

\* config.matcher: "/dashboard/:path*", "/login", "/register"
Matcher(pathname) ==
    \/ pathname = <<"/","d","a","s","h","b","o","a","r","d">>
    \/ StartsWith(pathname, <<"/","d","a","s","h","b","o","a","r","d","/">>)
    \/ pathname = <<"/","l","o","g","i","n">>
    \/ pathname = <<"/","r","e","g","i","s","t","e","r">>

\* the pathnames requested
Pathnames ==
    { <<"/","d","a","s","h","b","o","a","r","d">>, <<"/","d","a","s","h","b","o","a","r","d","/","r","e","p","o","r","t","s">>, <<"/","l","o","g","i","n">>, <<"/","r","e","g","i","s","t","e","r">>, <<"/">> }

\* the session tokens a browser may send: one signed by signToken and still
\* in its seven days, one signed and expired, one made up, and the empty string
Tokens == {"signed", "expired", "forged", ""}

\* lib/auth.ts verifyToken: the payload of a token jwt.verify accepts
verifyToken(token) ==
    IF token = "signed" THEN Present([userId |-> 1]) ELSE Absent

\* a request: its pathname and its cookies, as name -> value
Requests ==
    { [pathname |-> p, cookies |-> c] :
        p \in Pathnames,
        c \in {<<>>} \cup {[n \in {COOKIE_NAME} |-> t] : t \in Tokens} }

\* req.cookies.get(COOKIE_NAME)?.value
CookieValue(r) ==
    IF COOKIE_NAME \in DOMAIN r.cookies THEN Present(r.cookies[COOKIE_NAME])
    ELSE Absent

Redirect(to) == [kind |-> "redirect", to |-> to]

NextResponseNext == [kind |-> "next", to |-> <<>>]

\* the middleware letting every /dashboard request through
middlewareOpen(r) ==
    LET pathname   == r.pathname
        hasSession == CookieValue(r) # Absent /\ CookieValue(r)[1] # ""
    IN  IF (\E i \in 1..Len(AUTH_PAGES) : AUTH_PAGES[i] = pathname)
           /\ hasSession
        THEN Redirect(<<"/","d","a","s","h","b","o","a","r","d">>)
        ELSE NextResponseNext

middleware(r) ==
    LET pathname   == r.pathname
        hasSession == CookieValue(r) # Absent /\ CookieValue(r)[1] # ""
    IN  IF (\E i \in 1..Len(PROTECTED) : StartsWith(pathname, PROTECTED[i]))
           /\ ~hasSession
        THEN Redirect(<<"/","l","o","g","i","n">>)
        ELSE IF (\E i \in 1..Len(AUTH_PAGES) : AUTH_PAGES[i] = pathname)
                /\ hasSession
        THEN Redirect(<<"/","d","a","s","h","b","o","a","r","d">>)
        ELSE NextResponseNext

\* a request arrives: the middleware runs on the paths of the matcher
Request(r) ==
    /\ Len(routed) < MaxRequests
    /\ routed' = Append(routed,
                    [req |-> r,
                     res |-> IF Matcher(r.pathname) THEN middleware(r)
                             ELSE NextResponseNext])
    /\ UNCHANGED outsideMiddleware

InitMiddleware == routed = <<>>

NextMiddleware == \E r \in Requests : Request(r)

\* ------------------------------------------------------------------
\* lib/health.ts and app/api/health/route.ts: GET /api/health.
\* ------------------------------------------------------------------

\* what the health check leaves alone
outsideHealth == <<classifierVars, analyzeVars, now, limiterVars, middlewareVars,
                   cacheVars, breakdownVars,
          contextVars>>

\* largest heapTotal process.memoryUsage() reports, in the unit of the model
MaxHeap == 10

\* connections a behaviour takes from the pool for health checks
MaxProbes == 1

\* how the database probe can end
ProbeOutcomes == {"ok", "getConnection throws", "query throws"}

\* memStatus of HealthChecker.check with 'warning' counted as an error
memoryErrorsAtWarning(heapUsed, heapTotal) ==
    LET heapUsedPercent ==
            FMul(FDiv(FromInt(heapUsed), FromInt(heapTotal)), FromInt(100))
    IN  IF FGt(heapUsedPercent, FromInt(90))
        THEN [memStatus |-> "critical", errors |-> <<"Heap usage">>]
        ELSE IF FGt(heapUsedPercent, FromInt(75))
        THEN [memStatus |-> "warning", errors |-> <<"Heap usage">>]
        ELSE [memStatus |-> "ok", errors |-> <<>>]

\* the memory part of HealthChecker.check: memStatus and the error it pushes
memoryCheck(heapUsed, heapTotal) ==
    LET heapUsedPercent ==
            FMul(FDiv(FromInt(heapUsed), FromInt(heapTotal)), FromInt(100))
    IN  IF FGt(heapUsedPercent, FromInt(90))
        THEN [memStatus |-> "critical", errors |-> <<"Heap usage">>]
        ELSE IF FGt(heapUsedPercent, FromInt(75))
        THEN [memStatus |-> "warning", errors |-> <<>>]
        ELSE [memStatus |-> "ok", errors |-> <<>>]

\* HealthChecker.check(): the HealthStatus for a probe outcome and a
\* process.memoryUsage() reading
healthCheck(probe, heapUsed, heapTotal) ==
    LET dbStatus      == IF probe = "ok" THEN "ok" ELSE "error"
        mem           == memoryCheck(heapUsed, heapTotal)
        errors        == (IF dbStatus = "error" THEN <<"Database error">> ELSE <<>>)
                         \o mem.errors
        overallStatus == IF Len(errors) > 0
                         THEN IF dbStatus = "error" THEN "unhealthy" ELSE "degraded"
                         ELSE "healthy"
    IN  [status |-> overallStatus,
         uptime |-> now,
         checks |-> [database |-> dbStatus, memory |-> mem.memStatus],
         errors |-> IF Len(errors) > 0 THEN Present(errors) ELSE Absent]

\* GET /api/health
GetHealth(probe, heapUsed, heapTotal) ==
    /\ database.acquired < MaxProbes
    /\ LET body == healthCheck(probe, heapUsed, heapTotal)
       IN  health' = Present([probe     |-> probe,
                              heapUsed  |-> heapUsed,
                              heapTotal |-> heapTotal,
                              body      |-> body,
                              status    |-> IF body.status = "healthy"
                                            THEN 200 ELSE 503])
    /\ database' =
          [database EXCEPT
              !.acquired = IF probe = "getConnection throws" THEN @ ELSE @ + 1,
              !.released = IF probe = "ok" THEN @ + 1 ELSE @]
    /\ UNCHANGED outsideHealth

InitHealth == health = Absent

NextHealth ==
    \E probe \in ProbeOutcomes, heapTotal \in 1..MaxHeap :
        \E heapUsed \in 1..heapTotal : GetHealth(probe, heapUsed, heapTotal)

\* ------------------------------------------------------------------
\* lib/cache.ts: apiCache = new Cache(60).
\* ------------------------------------------------------------------

\* what the cache leaves alone
outsideCache == <<classifierVars, analyzeVars, database, limiterVars,
                  middlewareVars, health, breakdownVars, contextVars>>

\* this.ttl of new Cache(60), in milliseconds
apiCacheTtl == 60 * 1000

CacheKeys == {"k1", "k2"}

CacheValues == {"v1", "v2"}

\* the ttlSeconds argument of set: omitted, 0 or 30
TtlSeconds == {Absent, Present(0), Present(30)}

\* the steps Date.now() is seen to advance by between calls of the cache
CacheClockSteps == {15000}

\* latest time, in milliseconds after start-up, at which the cache is called
MaxCacheNow == 75000

\* the store without key
Without(m, key) == [k \in DOMAIN m \ {key} |-> m[k]]

\* the store with key bound to entry
With(m, key, entry) ==
    [k \in DOMAIN m \cup {key} |-> IF k = key THEN entry ELSE m[k]]

\* Cache.set(key, value, ttlSeconds?)
Set(key, value, ttlSeconds) ==
    /\ store' = With(store, key,
                    [value     |-> value,
                     expiresAt |-> now + (IF ttlSeconds # Absent /\ ttlSeconds[1] # 0
                                          THEN ttlSeconds[1] * 1000
                                          ELSE apiCacheTtl)])
    /\ sets' = With(sets, key, [value |-> value, ttlSeconds |-> ttlSeconds,
                                at |-> now])
    /\ got' = Absent
    /\ UNCHANGED <<now, outsideCache>>

\* Cache.get(key)
Get(key) ==
    /\ IF key \notin DOMAIN store
       THEN /\ got' = Present([key |-> key, at |-> now, result |-> Absent])
            /\ store' = store
       ELSE IF store[key].expiresAt < now
       THEN /\ got' = Present([key |-> key, at |-> now, result |-> Absent])
            /\ store' = Without(store, key)
       ELSE /\ got' = Present([key |-> key, at |-> now,
                               result |-> Present(store[key].value)])
            /\ store' = store
    /\ UNCHANGED <<sets, now, outsideCache>>

\* Cache.delete(key)
Delete(key) ==
    /\ key \in DOMAIN sets
    /\ store' = Without(store, key)
    /\ sets' = Without(sets, key)
    /\ got' = Absent
    /\ UNCHANGED <<now, outsideCache>>

\* Cache.cleanup(), run by the timer of the constructor every minute
Cleanup ==
    /\ now >= 60 * 1000
    /\ store' = [k \in {x \in DOMAIN store : ~(store[x].expiresAt < now)} |->
                    store[k]]
    /\ got' = Absent
    /\ UNCHANGED <<sets, now, outsideCache>>

\* time passes between two calls
Elapse(ms) ==
    /\ now + ms <= MaxCacheNow
    /\ now' = now + ms
    /\ got' = Absent
    /\ UNCHANGED <<store, sets, outsideCache>>

InitCache ==
    /\ store = <<>>
    /\ sets = <<>>
    /\ got = Absent

NextCache ==
    \/ \E key \in CacheKeys, value \in CacheValues, ttlSeconds \in TtlSeconds :
          Set(key, value, ttlSeconds)
    \/ \E key \in CacheKeys : Get(key)
    \/ \E key \in CacheKeys : Delete(key)
    \/ Cleanup
    \/ \E ms \in CacheClockSteps : Elapse(ms)

\* ------------------------------------------------------------------
\* classifyArticles, steps 3 and 4 on their own: the category counts of a
\* classified list growing article by article, and the breakdown and the
\* dominant category computed from them.
\* ------------------------------------------------------------------

\* what steps 3 and 4 leave alone
outsideBreakdown == <<classifierVars, analyzeVars, database, now, limiterVars,
                      middlewareVars, health, cacheVars, contextVars>>

\* longest classified list counted
MaxCounted == 40

\* the categories the counted articles fall in
CountedCategories == {"Monetary", "SupplyChain", "General"}

\* classified.length
Counted(c) ==
    c.Geopolitical + c.Monetary + c.Commodity + c.SupplyChain + c.General

\* classified.length || 1
TotalOf(c) == IF Counted(c) # 0 THEN Counted(c) ELSE 1

\* one more article of category cat in the classified list
CountArticle(cat) ==
    /\ Counted(tally) < MaxCounted
    /\ tally' = [tally EXCEPT ![cat] = @ + 1]
    /\ tallyBreakdown' = categoryBreakdownOf(tally', TotalOf(tally'))
    /\ tallyDominant' = dominantFrom(tally', 1, "General", FNeg(FromInt(1)))
    /\ UNCHANGED outsideBreakdown

InitBreakdown ==
    /\ tally = [Geopolitical |-> 0, Monetary |-> 0, Commodity |-> 0,
                SupplyChain |-> 0, General |-> 0]
    /\ tallyBreakdown = [Geopolitical |-> 0, Monetary |-> 0, Commodity |-> 0,
                         SupplyChain |-> 0, General |-> 0]
    /\ tallyDominant = "General"

NextBreakdown == \E cat \in CountedCategories : CountArticle(cat)

\* ------------------------------------------------------------------
\* lib/requestContext.ts and lib/response.ts: handlers that open a request
\* context, await their work, answer through ResponseBuilder and clear the
\* context.  Handlers of concurrent requests interleave at their awaits.
\* ------------------------------------------------------------------

\* what the request context leaves alone
outsideContext == <<classifierVars, analyzeVars, database, now, limiterVars,
                    middlewareVars, health, cacheVars, breakdownVars>>

\* the requests in flight and the X-Request-ID header each of them carries
Handlers == {"A", "B", "C"}

HeaderOf(r) ==
    IF r = "A" THEN Present("req-A")
    ELSE IF r = "B" THEN Present("req-B")
    ELSE Absent

\* the values of `${Date.now()}-${Math.random().toString(36).substr(2, 9)}`
GeneratedIds == {"1700000000000-k3x9q2m1z"}

\* the userId a handler passes to initRequestContext
UserIds == {Absent, Present(1)}

\* getRequestId()
getRequestId ==
    IF currentContext # Absent THEN currentContext[1].requestId ELSE "unknown"

\* ResponseBuilder.success(data): the body of the response
success(data) == [success |-> TRUE, data |-> data, requestId |-> getRequestId]

\* initRequestContext(userId), from the await of headers() to its return
InitRequestContext(r, userId, generated) ==
    /\ inflight[r].step = "idle"
    /\ LET requestId == Nullish(HeaderOf(r), generated)
       IN  /\ currentContext' = Present([requestId |-> requestId, userId |-> userId])
           /\ inflight' = [inflight EXCEPT ![r] =
                              [step |-> "handling", own |-> Present(requestId),
                               body |-> Absent]]
    /\ UNCHANGED outsideContext

\* the handler builds its response after the awaits of its work
Respond(r) ==
    /\ inflight[r].step = "handling"
    /\ inflight' = [inflight EXCEPT ![r].step = "answered",
                                    ![r].body = Present(success(r))]
    /\ UNCHANGED <<currentContext, outsideContext>>

\* clearRequestContext() at the end of the request
ClearRequestContext(r) ==
    /\ inflight[r].step = "answered"
    /\ currentContext' = Absent
    /\ inflight' = [inflight EXCEPT ![r].step = "done"]
    /\ UNCHANGED outsideContext

InitContext ==
    /\ currentContext = Absent
    /\ inflight = [r \in Handlers |->
                      [step |-> "idle", own |-> Absent, body |-> Absent]]

NextContext ==
    \/ \E r \in Handlers, userId \in UserIds, generated \in GeneratedIds :
          InitRequestContext(r, userId, generated)
    \/ \E r \in Handlers : Respond(r)
    \/ \E r \in Handlers : ClearRequestContext(r)

\* ------------------------------------------------------------------
\* The server after start-up, and its behaviours component by component.
\* ------------------------------------------------------------------

Init ==
    /\ KEYWORDS = KEYWORDS_INIT
    /\ CATEGORY_WEIGHT = CATEGORY_WEIGHT_INIT
    /\ SEVERITY_TIERS = SEVERITY_TIERS_INIT
    /\ rawArticles = <<>>
    /\ assessment = Absent
    /\ previous = Absent
    /\ impact = Absent
    /\ InitAnalyze
    /\ InitLimiter
    /\ InitMiddleware
    /\ InitHealth
    /\ InitCache
    /\ InitBreakdown
    /\ InitContext

\* direct calls of the classifier
Next ==
    \/ \E a \in ArticlePool : Receive(a)
    \/ Discard
    \/ Classify
    \/ \E score \in 0..MaxScore : ImpactLevel(score)

Spec == Init /\ [][Next]_vars

\* one POST /api/analyze request
SpecAnalyze == Init /\ [][NextAnalyze]_vars

\* requests reaching authLimiter over time
SpecLimiter == Init /\ [][NextLimiter]_vars

\* one client of authLimiter that waits and tries again
SpecRetry == Init /\ [][NextRetry]_vars

\* requests passing the edge middleware
SpecMiddleware == Init /\ [][NextMiddleware]_vars

\* health probes
SpecHealth == Init /\ [][NextHealth]_vars

\* calls of apiCache over time
SpecCache == Init /\ [][NextCache]_vars

\* step 3 of classifyArticles on lists of growing length
SpecBreakdown == Init /\ [][NextBreakdown]_vars

\* concurrent requests using the request context
SpecContext == Init /\ [][NextContext]_vars
\* ------------------------------------------------------------------
\* Properties.  The reference values below are computed in exact integer
\* arithmetic from the documented weights, not with the operators above.
\* ------------------------------------------------------------------

Result == assessment[1]

Classified == assessment # Absent

\* title + " " + description of input article i, as classifyArticles reads it
TextOf(i) ==
    Nullish(rawArticles[i].title, <<>>) \o Space
        \o Nullish(rawArticles[i].description, <<>>)

\* documented base weights, in hundredths
BaseWeightPct ==
    [Geopolitical |-> 100, Monetary |-> 90, Commodity |-> 80,
     SupplyChain |-> 70, General |-> 30]

\* position of a category in the order Geopolitical, ..., General
Rank(cat) == CHOOSE k \in 1..Len(RiskCategory) : RiskCategory[k] = cat

\* round-half-up of num / den for num >= 0, den > 0
RoundHalfUp(num, den) == (2 * num + den) \div (2 * den)

ClampInt(v, lo, hi) == IF v < lo THEN lo ELSE IF v > hi THEN hi ELSE v

\* the documented band of a score
Band(score) ==
    IF score <= 30 THEN "LOW" ELSE IF score <= 70 THEN "MEDIUM" ELSE "HIGH"

\* some keyword of some risk category occurs in the lower-cased text
MatchesSomeKeyword(text) ==
    \E k \in 1..Len(KEYWORDS_INIT) : \E j \in 1..Len(KEYWORDS_INIT[k].words) :
        Includes(lc(text), KEYWORDS_INIT[k].words[j])

\* some word of severity tier t occurs in the lower-cased text
MatchesTier(text, t) ==
    \E j \in 1..Len(SEVERITY_TIERS_INIT[t].words) :
        Includes(lc(text), SEVERITY_TIERS_INIT[t].words[j])

BreakdownSum ==
    Result.categoryBreakdown.Geopolitical + Result.categoryBreakdown.Monetary
    + Result.categoryBreakdown.Commodity + Result.categoryBreakdown.SupplyChain
    + Result.categoryBreakdown.General

\* C1: classifyArticles([]) returns dominantCategory = General.
C1_EmptyDominantGeneral ==
    (Classified /\ rawArticles = <<>>) => Result.dominantCategory = "General"

\* C2: classifyArticles([]) returns overallScore 0, impactLevel LOW and a
\* breakdown of five zeros.
C2_EmptyInput ==
    (Classified /\ rawArticles = <<>>) =>
        /\ Result.overallScore = 0
        /\ Result.impactLevel = "LOW"
        /\ \A k \in 1..Len(RiskCategory) :
              Result.categoryBreakdown[RiskCategory[k]] = 0
        /\ Result.articles = <<>>

C2_Witness == Classified /\ rawArticles = <<>>

\* C3: overallScore and every articleScore are integers in 0..100.
C3_ScoresInRange ==
    Classified =>
        /\ Result.overallScore \in 0..100
        /\ \A i \in 1..Len(Result.articles) :
              Result.articles[i].articleScore \in 0..100

C3_Witness ==
    /\ Classified
    /\ \E i, j \in 1..Len(Result.articles) :
          /\ Result.articles[i].articleScore = 100
          /\ Result.articles[j].articleScore = 23

\* C4 as stated: an article whose text matches no keyword of any risk
\* category is General, has severity boost 5 and scores 23.
C4_NoKeywordScores23 ==
    Classified =>
        \A i \in 1..Len(rawArticles) :
            ~MatchesSomeKeyword(TextOf(i)) =>
                /\ Result.articles[i].riskCategory = "General"
                /\ severityBoost(TextOf(i)) = 5
                /\ Result.articles[i].articleScore = 23

\* C4 amended: an article whose text matches no keyword of any risk category
\* and no word of any severity tier is General, has boost 5 and scores 23.
C4_NoKeywordNoSeverityScores23 ==
    Classified =>
        \A i \in 1..Len(rawArticles) :
            (/\ ~MatchesSomeKeyword(TextOf(i))
             /\ \A t \in 1..Len(SEVERITY_TIERS_INIT) : ~MatchesTier(TextOf(i), t)) =>
                /\ Result.articles[i].riskCategory = "General"
                /\ severityBoost(TextOf(i)) = 5
                /\ Result.articles[i].articleScore = 23

C4_Witness ==
    /\ Classified
    /\ \E i \in 1..Len(rawArticles) :
          /\ ~MatchesSomeKeyword(TextOf(i))
          /\ \A t \in 1..Len(SEVERITY_TIERS_INIT) : ~MatchesTier(TextOf(i), t)
          /\ Result.articles[i].articleScore = 23

\* C5: for a non-empty input every breakdown value is in 0..100 and the five
\* values sum to 100 give or take 4.
C5_BreakdownSum ==
    (Classified /\ rawArticles # <<>>) =>
        /\ \A k \in 1..Len(RiskCategory) :
              Result.categoryBreakdown[RiskCategory[k]] \in 0..100
        /\ BreakdownSum >= 100 - (Len(RiskCategory) - 1)
        /\ BreakdownSum <= 100 + (Len(RiskCategory) - 1)

C5_Witness == Classified /\ rawArticles # <<>> /\ BreakdownSum = 99

\* C6: toImpactLevel maps 0..30 to LOW, 31..70 to MEDIUM and 71..100 to HIGH,
\* and every result has impactLevel = the band of its overallScore.
C6_ImpactLevel ==
    /\ impact # Absent =>
          LET score == impact[1][1]
              level == impact[1][2]
          IN  /\ score \in 0..30 => level = "LOW"
              /\ score \in 31..70 => level = "MEDIUM"
              /\ score \in 71..100 => level = "HIGH"
    /\ Classified => Result.impactLevel = Band(Result.overallScore)

C6_Witness == impact = Present(<<30, "LOW">>)

\* C7: the returned articles are the classifications of the input articles,
\* one for one and in the same order.
C7_SameLengthAndOrder ==
    Classified =>
        /\ Len(Result.articles) = Len(rawArticles)
        /\ \A i \in 1..Len(rawArticles) :
              /\ Result.articles[i].title = rawArticles[i].title
              /\ Result.articles[i].url = rawArticles[i].url
              /\ Result.articles[i] = classifyOne(rawArticles[i])

C7_Witness ==
    /\ Classified
    /\ Len(rawArticles) >= 2
    /\ rawArticles[1].url # rawArticles[2].url
    /\ Result.articles[1].riskCategory # Result.articles[2].riskCategory

\* C8: no call changes the tables or its input, and a call repeated on the
\* same list returns the result of the call before it.
C8_NoHiddenState ==
    [][/\ tables' = tables
       /\ assessment' # Absent => rawArticles' = rawArticles
       /\ previous' # Absent => previous' = assessment']_vars

C8_Witness == previous # Absent /\ rawArticles # <<>>

\* C9: articleScore = clamp(round(baseWeight * 60 + severityBoost), 0, 100),
\* and a Geopolitical article with a tier-1 word scores 100.
C9_ArticleScore ==
    Classified =>
        \A i \in 1..Len(rawArticles) :
            LET a == Result.articles[i] IN
            /\ a.articleScore =
                  ClampInt(RoundHalfUp(BaseWeightPct[a.riskCategory] * 60
                                        + severityBoost(TextOf(i)) * 100, 100),
                           0, 100)
            /\ (a.riskCategory = "Geopolitical" /\ MatchesTier(TextOf(i), 1))
                  => a.articleScore = 100

C9_Witness ==
    /\ Classified
    /\ \E i \in 1..Len(rawArticles) :
          /\ Result.articles[i].riskCategory = "Geopolitical"
          /\ MatchesTier(TextOf(i), 1)
          /\ Result.articles[i].articleScore = 100

\* matchCount * baseWeight (in hundredths) of entry k of a match mapping
Product(matches, k) == Len(matches[k].words) * BaseWeightPct[matches[k].cat]

\* C10: the article's category has the greatest matchCount * baseWeight of its
\* match mapping, the first of Geopolitical, Monetary, Commodity, SupplyChain
\* among equals, and is General for an empty mapping.
C10_PickCategory ==
    Classified =>
        \A i \in 1..Len(Result.articles) :
            LET m   == Result.articles[i].keywordMatches
                cat == Result.articles[i].riskCategory
            IN  IF m = <<>> THEN cat = "General"
                ELSE \E k \in 1..Len(m) :
                        /\ m[k].cat = cat
                        /\ \A j \in 1..Len(m) :
                              \/ Product(m, k) > Product(m, j)
                              \/ /\ Product(m, k) = Product(m, j)
                                 /\ Rank(m[k].cat) <= Rank(m[j].cat)

C10_Witness ==
    /\ Classified
    /\ \E i \in 1..Len(Result.articles) :
          LET m == Result.articles[i].keywordMatches IN
          /\ Len(m) = 2
          /\ Product(m, 1) = Product(m, 2)
          /\ Result.articles[i].riskCategory = "Geopolitical"


\* the boost the documented tier order gives a text: the first of the tiers
\* +40, +25, +12 with a word in the lower-cased text, else +5
FirstTierBoost(text) ==
    IF MatchesTier(text, 1) THEN 40
    ELSE IF MatchesTier(text, 2) THEN 25
    ELSE IF MatchesTier(text, 3) THEN 12
    ELSE 5

\* the part of an article's score that is not baseWeight * 60
BoostIn(a) == a.articleScore - (BaseWeightPct[a.riskCategory] * 60) \div 100

\* C11: the severity boost in every article's score is the boost of the first
\* matching tier in the order +40, +25, +12, or +5 when none matches; it is
\* one of 40, 25, 12, 5, never a sum over several matching tiers.
C11_FirstTierBoost ==
    Classified =>
        \A i \in 1..Len(rawArticles) :
            /\ BoostIn(Result.articles[i]) = FirstTierBoost(TextOf(i))
            /\ BoostIn(Result.articles[i]) \in {40, 25, 12, 5}

C11_Witness ==
    /\ Classified
    /\ \E i \in 1..Len(rawArticles) :
          /\ MatchesTier(TextOf(i), 1)
          /\ MatchesTier(TextOf(i), 2)
          /\ MatchesTier(TextOf(i), 3)
          /\ BoostIn(Result.articles[i]) = 40
    /\ \E i \in 1..Len(rawArticles) : BoostIn(Result.articles[i]) = 5

Threw(fn) == \E i \in 1..Len(invoked) : invoked[i] = [fn |-> fn, threw |-> TRUE]

Returned(fn) == \E i \in 1..Len(invoked) : invoked[i] = [fn |-> fn, threw |-> FALSE]

\* the four messages the route stores when no summary could be generated
FallbackMessages ==
    { "AI summary unavailable: GEMINI_API_KEY is invalid. Generate a new key in Google AI Studio and update .env.local.",
      "AI summary unavailable: GEMINI_MODEL is unavailable for this API key. Update GEMINI_MODEL in .env.local.",
      "AI summary unavailable: Gemini quota/rate limit reached. Retry later; risk scoring is unaffected.",
      "AI summary temporarily unavailable. The risk scoring above is unaffected. Check GEMINI_API_KEY, GEMINI_MODEL, and Gemini API access." }

\* the request ended 200 with one assessment row whose ai_summary is a
\* fallback message, and the body carries what the classifier produced
AnsweredWithFallback ==
    /\ response # Absent
    /\ response[1].status = 200
    /\ Len(database.impact_assessments) = 1
    /\ database.impact_assessments[1].ai_summary \in FallbackMessages
    /\ response[1].body.aiSummary = database.impact_assessments[1].ai_summary
    /\ response[1].body.overallScore = Result.overallScore
    /\ response[1].body.impactLevel = Result.impactLevel
    /\ response[1].body.dominantCategory = Result.dominantCategory
    /\ response[1].body.categoryBreakdown = Result.categoryBreakdown
    /\ \A i \in 1..Len(Result.articles) :
          response[1].body.articles[i].articleScore = Result.articles[i].articleScore

\* C13 as stated: whenever generateExecutiveSummary throws, the request ends
\* 200 with the assessment persisted under a fallback message.
C13_SummaryFailureAlways200 ==
    (pc = "done" /\ Threw("generateExecutiveSummary")) => AnsweredWithFallback

\* C13 amended: whenever generateExecutiveSummary throws and the transaction
\* that follows commits, the request ends 200 with the assessment persisted
\* under a fallback message and the classifier's values in the body; when the
\* connection or a statement fails it ends 500 with nothing persisted.
C13_SummaryFailureThenCommit ==
    (pc = "done" /\ Threw("generateExecutiveSummary")) =>
        IF Threw("db.getConnection") \/ Returned("conn.rollback")
                                     \/ Threw("conn.rollback")
        THEN /\ response[1].status = 500
             /\ database.impact_assessments = <<>>
        ELSE AnsweredWithFallback

C13_Witness ==
    /\ pc = "done"
    /\ Threw("generateExecutiveSummary")
    /\ Returned("conn.commit")
    /\ response[1].status = 200
    /\ database.impact_assessments[1].ai_summary \in FallbackMessages

\* C14: when fetchLatestNews returns no article the request ends 502 with
\* nothing called after the fetch and nothing persisted; classifyArticles is
\* never called on an empty list and no row has article_count 0.
C14_NoArticles502 ==
    /\ (Returned("fetchLatestNews") /\ rawArticles = <<>>) =>
          /\ pc = "done"
          /\ response[1].status = 502
          /\ invoked[Len(invoked)].fn = "fetchLatestNews"
          /\ assessment = Absent
          /\ aiSummary = Absent
          /\ database.impact_assessments = <<>>
          /\ database.acquired = 0
    /\ Returned("classifyArticles") => rawArticles # <<>>
    /\ \A i \in 1..Len(database.impact_assessments) :
          database.impact_assessments[i].article_count > 0

C14_Witness ==
    /\ pc = "done"
    /\ Returned("fetchLatestNews")
    /\ rawArticles = <<>>
    /\ response[1].status = 502

\* the checks of key that were allowed at a time in [from, from + 60 s)
AllowedInMinuteFrom(key, from) ==
    {j \in 1..Len(checks[key]) :
        /\ checks[key][j].result.allowed
        /\ checks[key][j].at >= from
        /\ checks[key][j].at < from + 60 * 1000}

\* C15: for every key, authLimiter.check allows at most 10 requests within
\* any 60-second window.
C15_AtMostTenPerMinute ==
    \A key \in DOMAIN checks :
        \A i \in 1..Len(checks[key]) :
            Cardinality(AllowedInMinuteFrom(key, checks[key][i].at)) <= 10

\* the requests to /dashboard or a path below it
IsDashboard(pathname) ==
    pathname = <<"/","d","a","s","h","b","o","a","r","d">> \/ StartsWith(pathname, <<"/","d","a","s","h","b","o","a","r","d","/">>)

ExpiryAskedFor(key) ==
    sets[key].at + (IF sets[key].ttlSeconds # Absent
                    THEN sets[key].ttlSeconds[1] * 1000
                    ELSE 60 * 1000)

\* C18: after set(key, v, t) and no later set or delete of key, get(key)
\* returns v at every time up to the expiry and null, removing the entry, at
\* every time after it, the expiry being t seconds after the set (also for
\* t = 0) or the default TTL after it when t is omitted.
C18_GetUntilExpiry ==
    (got # Absent /\ got[1].key \in DOMAIN sets) =>
        IF got[1].at <= ExpiryAskedFor(got[1].key)
        THEN got[1].result = Present(sets[got[1].key].value)
        ELSE /\ got[1].result = Absent
             /\ got[1].key \notin DOMAIN store

\* sum over the returned articles of articleScore * baseWeight and of
\* baseWeight, both in hundredths
WeightedScoreSum ==
    LET sum[i \in 0..Len(Result.articles)] ==
            IF i = 0 THEN 0
            ELSE sum[i - 1] + Result.articles[i].articleScore
                                * BaseWeightPct[Result.articles[i].riskCategory]
    IN  sum[Len(Result.articles)]

WeightSum ==
    LET sum[i \in 0..Len(Result.articles)] ==
            IF i = 0 THEN 0
            ELSE sum[i - 1] + BaseWeightPct[Result.articles[i].riskCategory]
    IN  sum[Len(Result.articles)]

\* C19: for every non-empty input, overallScore = clamp(round(sum of
\* articleScore * baseWeight / sum of baseWeight), 0, 100), the sums ranging
\* over all returned articles.
C19_OverallScore ==
    (Classified /\ rawArticles # <<>>) =>
        Result.overallScore = ClampInt(RoundHalfUp(WeightedScoreSum, WeightSum), 0, 100)

\* C20: for each of the five categories c, categoryBreakdown[c] =
\* round(count of articles of category c / max(1, number of articles) * 100),
\* so the breakdown is determined by the category counts alone.
C20_BreakdownFromCounts ==
    \A k \in 1..Len(RiskCategory) :
        tallyBreakdown[RiskCategory[k]] =
            RoundHalfUp(tally[RiskCategory[k]] * 100,
                        IF Counted(tally) > 1 THEN Counted(tally) ELSE 1)

\* the rows visible in the three tables
Visible ==
    <<database.impact_assessments, database.events, database.assessment_events>>

\* the tables hold one assessment, one event per classified article in the
\* order of the list, and one link from the assessment to each event
FullyPersisted ==
    /\ Len(database.impact_assessments) = 1
    /\ database.impact_assessments[1].article_count = Len(Result.articles)
    /\ Len(database.events) = Len(Result.articles)
    /\ Len(database.assessment_events) = Len(Result.articles)
    /\ \A i \in 1..Len(Result.articles) :
          /\ database.events[i].url = Result.articles[i].url
          /\ database.events[i].risk_category = Result.articles[i].riskCategory
          /\ database.events[i].article_score = Result.articles[i].articleScore
          /\ database.assessment_events[i] =
                <<database.impact_assessments[1].id, database.events[i].id>>
          /\ \A j \in 1..Len(Result.articles) :
                i # j => database.events[i].id # database.events[j].id

\* statements of the transaction that have executed
Executed ==
    Cardinality({i \in 1..Len(invoked) :
                    /\ invoked[i].fn \in {"conn.beginTransaction", "conn.query"}
                    /\ ~invoked[i].threw})

\* C23: at every moment the three tables hold either nothing of the request
\* or all of it; they hold all of it exactly when the response is 200, and
\* after a statement of the transaction has failed they hold nothing and the
\* response is 500.
C23_AllOrNothing ==
    /\ \/ Visible = <<<<>>, <<>>, <<>>>>
       \/ FullyPersisted
    /\ (response # Absent /\ response[1].status = 200) <=> Visible # <<<<>>, <<>>, <<>>>>
    /\ (Threw("conn.beginTransaction") \/ Threw("conn.query") \/ Threw("conn.commit")) =>
          /\ pc = "done"
          /\ response[1].status = 500
          /\ Visible = <<<<>>, <<>>, <<>>>>

C23_Witness ==
    /\ pc = "done"
    /\ Executed >= 4
    /\ Threw("conn.query")
    /\ response[1].status = 500
    /\ Visible = <<<<>>, <<>>, <<>>>>

\* C24: once POST /api/analyze has answered and once HealthChecker.check has
\* returned, every connection taken from the pool has been released: the
\* pool has counted as many releases as acquisitions, also when a query on
\* the connection failed.
C24_ReleasedOnce ==
    ((pc = "done" \/ health # Absent) /\ conn = Absent) =>
        database.released = database.acquired

\* count(cat) * baseWeight(cat) of the counted list, in hundredths
DomScore(cat) == tally[cat] * BaseWeightPct[cat]

\* C21: for every non-empty list, dominantCategory is the first category in
\* the order Geopolitical, Monetary, Commodity, SupplyChain, General among
\* those of the greatest count * baseWeight.
C21_DominantFirstOfGreatest ==
    Counted(tally) > 0 =>
        /\ \A k \in 1..Len(RiskCategory) :
              DomScore(RiskCategory[k]) <= DomScore(tallyDominant)
        /\ \A k \in 1..Len(RiskCategory) :
              DomScore(RiskCategory[k]) = DomScore(tallyDominant)
                  => Rank(tallyDominant) <= k

\* w occurs in s: some stretch of s of the length of w equals w
Occurs(w, s) ==
    \E i \in 1..(Len(s) - Len(w) + 1) : SubSeq(s, i, i + Len(w) - 1) = w

\* the positions, in the list of dictionary entry k, of the keywords that
\* occur in the lower-cased text
Hits(k, lower) ==
    {j \in 1..Len(KEYWORDS_INIT[k].words) :
        Occurs(KEYWORDS_INIT[k].words[j], lower)}

\* list is the keywords of dictionary entry k at the positions hits, in
\* increasing position
InDictionaryOrder(list, k, hits) ==
    /\ Len(list) = Cardinality(hits)
    /\ \A p \in 1..Len(list) :
          list[p] = KEYWORDS_INIT[k].words[
                        CHOOSE j \in hits : Cardinality({h \in hits : h < j}) = p - 1]

\* C22: keywordMatches holds a category exactly when one of its keywords is a
\* substring of the lower-cased text (inside a longer word too); the list
\* stored is the category's matching keywords in dictionary order; General is
\* never a key.
C22_KeywordMatches ==
    Classified =>
        \A i \in 1..Len(rawArticles) :
            LET km    == Result.articles[i].keywordMatches
                lower == SubSeq(lc(TextOf(i)), 1, Len(TextOf(i)))
            IN  /\ \A e \in 1..Len(km) : km[e].cat # "General"
                /\ \A e, f \in 1..Len(km) : km[e].cat = km[f].cat => e = f
                /\ \A k \in 1..Len(KEYWORDS_INIT) :
                      LET hits == Hits(k, lower)
                      IN  IF hits = {}
                          THEN \A e \in 1..Len(km) : km[e].cat # KEYWORDS_INIT[k].cat
                          ELSE \E e \in 1..Len(km) :
                                  /\ km[e].cat = KEYWORDS_INIT[k].cat
                                  /\ InDictionaryOrder(km[e].words, k, hits)

C22_Witness ==
    /\ Classified
    /\ \E i, j \in 1..Len(rawArticles) :
          /\ Occurs(<<"w","a","r","r","a","n","t","y">>, lc(TextOf(i)))
          /\ \E e \in 1..Len(Result.articles[i].keywordMatches) :
                Result.articles[i].keywordMatches[e] =
                    [cat |-> "Geopolitical", words |-> <<<<"w","a","r">>>>]
          /\ \E e \in 1..Len(Result.articles[j].keywordMatches) :
                /\ Result.articles[j].keywordMatches[e].cat = "Commodity"
                /\ Len(Result.articles[j].keywordMatches[e].words) = 5
          /\ Result.articles[j].keywordMatches # Result.articles[i].keywordMatches
    /\ \E i \in 1..Len(rawArticles) : Result.articles[i].keywordMatches = <<>>

\* the categories that are keys of returned article i's keywordMatches
KeysOf(i) ==
    {Result.articles[i].keywordMatches[e].cat :
        e \in 1..Len(Result.articles[i].keywordMatches)}

\* C26: a returned article is General exactly when its keywordMatches is
\* empty; otherwise its riskCategory is one of the keys of its
\* keywordMatches.
C26_GeneralIffNoMatch ==
    Classified =>
        \A i \in 1..Len(Result.articles) :
            /\ Result.articles[i].riskCategory = "General" <=> KeysOf(i) = {}
            /\ KeysOf(i) # {} => Result.articles[i].riskCategory \in KeysOf(i)

C26_Witness ==
    /\ Classified
    /\ \E i, j \in 1..Len(Result.articles) :
          /\ Result.articles[i].riskCategory = "General"
          /\ KeysOf(i) = {}
          /\ Cardinality(KeysOf(j)) = 2
          /\ Result.articles[j].riskCategory \in KeysOf(j)
    /\ \E i \in 1..Len(Result.articles) :
          /\ KeysOf(i) = {"SupplyChain"}
          /\ Len(Result.articles[i].keywordMatches[1].words) = 1

\* C27: overallScore is 0 exactly when the list is empty; for a non-empty
\* list every articleScore and overallScore are at least 23.
C27_ZeroIffEmpty ==
    Classified =>
        /\ Result.overallScore = 0 <=> rawArticles = <<>>
        /\ rawArticles # <<>> =>
              /\ Result.overallScore >= 23
              /\ \A i \in 1..Len(Result.articles) :
                    Result.articles[i].articleScore >= 23

C27_Witness ==
    /\ Classified
    /\ rawArticles # <<>>
    /\ Result.overallScore = 23
    /\ \A i \in 1..Len(Result.articles) : Result.articles[i].articleScore = 23

\* C28: for a non-empty list, overallScore lies between the smallest and the
\* largest articleScore of the returned articles, both included.
C28_BetweenMinAndMax ==
    (Classified /\ rawArticles # <<>>) =>
        /\ \E i \in 1..Len(Result.articles) :
              Result.articles[i].articleScore <= Result.overallScore
        /\ \E i \in 1..Len(Result.articles) :
              Result.articles[i].articleScore >= Result.overallScore

C28_Witness ==
    /\ Classified
    /\ \E i, j \in 1..Len(Result.articles) :
          /\ Result.articles[i].articleScore < Result.overallScore
          /\ Result.articles[j].articleScore > Result.overallScore
    /\ \E i \in 1..Len(Result.articles) :
          Result.articles[i].riskCategory = "General"

\* C29: for a non-empty list, some returned article has the dominant
\* category as its riskCategory.
C29_DominantHasArticle ==
    (Classified /\ rawArticles # <<>>) =>
        \E i \in 1..Len(Result.articles) :
            Result.articles[i].riskCategory = Result.dominantCategory

C29_Witness ==
    /\ Classified
    /\ Len(Result.articles) = 3
    /\ Result.dominantCategory = "SupplyChain"
    /\ \E i, j \in 1..Len(Result.articles) :
          /\ i # j
          /\ Result.articles[i].riskCategory = "General"
          /\ Result.articles[j].riskCategory = "General"

\* this step is a check of key: it adds an entry to the log of key
Checked(key) ==
    /\ key \in DOMAIN checks'
    /\ Len(checks'[key]) = Len(ChecksOf(key)) + 1

\* C30: a denied check takes no token from the bucket, and a check made
\* resetIn milliseconds or more after a denied check of the same key, with no
\* check of that key in between, is allowed.
C30_RetryAfterResetIn ==
    [][\A key \in Keys :
          Checked(key) =>
              LET latest == checks'[key][Len(checks'[key])]
              IN  /\ (~latest.result.allowed /\ key \in DOMAIN buckets) =>
                        FGe(buckets'[key].tokens, buckets[key].tokens)
                  /\ ~latest.result.allowed => latest.result.resetIn > 0
                  /\ (/\ ChecksOf(key) # <<>>
                      /\ ~checks[key][Len(checks[key])].result.allowed
                      /\ latest.at >= checks[key][Len(checks[key])].at
                                        + checks[key][Len(checks[key])].result.resetIn)
                        => latest.result.allowed]_vars

\* a denied check that asked for a wait of less than the 6 s a whole token
\* takes, followed by a check after just that wait, which was allowed
C30_Witness ==
    \E key \in DOMAIN checks :
        \E j \in 1..(Len(checks[key]) - 1) :
            /\ ~checks[key][j].result.allowed
            /\ checks[key][j].result.resetIn < 6000
            /\ checks[key][j + 1].at = checks[key][j].at + checks[key][j].result.resetIn
            /\ checks[key][j + 1].result.allowed

\* C25: every response a handler has built carries the request ID its own
\* initRequestContext set, whatever other requests did in between.
C25_OwnRequestId ==
    \A r \in Handlers :
        inflight[r].body # Absent =>
            inflight[r].body[1].requestId = inflight[r].own[1]
====
